---- MODULE Spec2Model ----
(***************************************************************************)
(* Model of the dynamic widget loader of web-shell                        *)
(* (src/lib/widgetLoader.ts, kept as src/unnamed/part_003): the           *)
(* WidgetRegistry singleton with its terminal cache `widgets`, its        *)
(* in-flight map `loadingPromises`, local-import-then-CDN resolution and  *)
(* the script elements the CDN fallback injects into document.head.       *)
(*                                                                         *)
(* Strings are sequences of tokens: a package name is a sequence of       *)
(* one-character strings, a literal part of a template string is one      *)
(* token.  A JavaScript promise is a record with a state; one action is   *)
(* one event-loop job together with the promise reactions it triggers.    *)
(***************************************************************************)
EXTENDS Integers, Sequences, FiniteSets, TLC

\* ------------------------------------------------------------------ bounds
\* How many loadWidget calls a behaviour makes (directly or through preloadWidgets).
MaxCalls == 2

\* How many loadManifest calls a behaviour makes (directly or through a
\* WidgetRenderer, whose every load attempt makes one).
MaxManifestLoads == 2

\* How many props a manifest declares at most, where validateProps is called on
\* its own.
MaxProps == 2

\* The largest maxWidgets of a WidgetIsland; a widget list grows to one more.
MaxIslandWidgets == 2

\* How many elements the array in PACKAGES_TO_UPDATE has at most.
MaxPackages == 2

\* ------------------------------------------------------------------ inputs
\* `version?: string` left out (undefined); "" is as falsy as undefined.
Undefined == << >>

\* ----------------------------------------------------------------- strings
\* version || "latest"
VersionOrLatest(version) == IF version = Undefined THEN <<"latest">> ELSE version

\* Mutant: the version takes no part in the key.
CacheKeyWithoutVersion(packageName, version) == packageName \o <<"@", "latest">>

\* `${packageName}@${version || "latest"}`
CacheKey(packageName, version) ==
  packageName \o <<"@">> \o VersionOrLatest(version)

\* The (packageName, version) pairs the callers ask for: a plain name without
\* a version and a scoped name with one.
Requests ==
  { [packageName |-> <<"w">>, version |-> Undefined],
    [packageName |-> <<"@", "s", "/", "w">>, version |-> <<"1">>] }

CacheKeys == { CacheKey(q.packageName, q.version) : q \in Requests }

\* Whether the module import(packageName) yields has a default export.
HasDefaultExport(packageName) == packageName = <<"w">>

\* `https://unpkg.com/${packageName}@${version}/dist/index.umd.js`
CdnUrl(packageName, version) ==
  <<"https://unpkg.com/">> \o packageName \o <<"@">> \o version
    \o <<"/dist/index.umd.js">>

LowerCase == <<"a", "b", "c", "d", "e", "f", "g", "h", "i", "j", "k", "l", "m",
               "n", "o", "p", "q", "r", "s", "t", "u", "v", "w", "x", "y", "z">>
UpperCase == <<"A", "B", "C", "D", "E", "F", "G", "H", "I", "J", "K", "L", "M",
               "N", "O", "P", "Q", "R", "S", "T", "U", "V", "W", "X", "Y", "Z">>

\* String.prototype.toUpperCase on one character
ToUpperCase(c) ==
  IF \E i \in DOMAIN LowerCase : LowerCase[i] = c
  THEN UpperCase[CHOOSE i \in DOMAIN LowerCase : LowerCase[i] = c]
  ELSE c

\* .replace(/[@\/\-]/g, " ")
ReplaceSeparators(s) ==
  [i \in DOMAIN s |-> IF s[i] \in {"@", "/", "-"} THEN " " ELSE s[i]]

\* .split(" "): the words between the spaces, empty words included
RECURSIVE SplitOnSpace(_)
SplitOnSpace(s) ==
  IF \A i \in DOMAIN s : s[i] # " "
  THEN << s >>
  ELSE LET at == CHOOSE i \in DOMAIN s :
                   s[i] = " " /\ \A j \in 1..(i - 1) : s[j] # " "
       IN  << SubSeq(s, 1, at - 1) >> \o SplitOnSpace(SubSeq(s, at + 1, Len(s)))

\* word.charAt(0).toUpperCase() + word.slice(1)
Capitalize(word) ==
  IF word = << >> THEN << >> ELSE << ToUpperCase(word[1]) >> \o Tail(word)

\* .join("")
RECURSIVE JoinWords(_)
JoinWords(words) ==
  IF words = << >> THEN << >> ELSE Head(words) \o JoinWords(Tail(words))

GetGlobalName(packageName) ==
  LET words == SplitOnSpace(ReplaceSeparators(packageName))
  IN  JoinWords([i \in DOMAIN words |-> Capitalize(words[i])])

\* `Widget ${packageName} not found on window.${globalName}`
NotFoundMessage(packageName) ==
  <<"Widget ">> \o packageName \o <<" not found on window.">>
    \o GetGlobalName(packageName)

\* `Failed to load widget from CDN: ${cdnUrl}`
CdnFailedMessage(cdnUrl) == <<"Failed to load widget from CDN: ">> \o cdnUrl

\* `Widget ${packageName} could not be loaded`
CouldNotBeLoadedMessage(packageName) ==
  <<"Widget ">> \o packageName \o <<" could not be loaded">>

\* String.prototype.includes
Includes(s, part) ==
  \E i \in 1..(Len(s) - Len(part) + 1) : SubSeq(s, i, i + Len(part) - 1) = part

\* -------------------------------------------------------------------- maps
EmptyMap == [k \in {} |-> << >>]
MapSet(m, k, v) == [x \in (DOMAIN m) \cup {k} |-> IF x = k THEN v ELSE m[x]]
MapDelete(m, k) == [x \in (DOMAIN m) \ {k} |-> m[x]]

\* ------------------------------------------------------------------- state
VARIABLES
  widgets,          \* Map<string, any>: cache key -> loaded component
  loadingPromises,  \* Map<string, Promise>: cache key -> resolution in flight
  resolutions,      \* the promises loadWidgetFromRegistry has returned, by number
  calls,            \* the promises loadWidget has returned to its callers
  preloads,         \* the promises preloadWidgets has returned
  head,             \* document.head: the resolutions whose script element is attached
  probe,            \* what the getWidget / isWidgetLoaded just called returned
  cleared,          \* the keys no loadWidget has asked for since the last clearCache
  manifestCache,    \* WidgetMetadata.cache: cache key -> manifest
  manifestLoads,    \* the promises loadManifest has returned
  instance,         \* the mounted WidgetRenderer: its props, its widgetState, its boundary
  attempts,         \* the invocations of the WidgetRenderer's loadWidget callback
  reported,         \* the errors the caller's onError callback has been invoked with
  hostFaults,       \* the exceptions that have left the WidgetRenderer for the hosting page
  sibling,          \* a second WidgetRenderer on the page: its WidgetErrorBoundary
  validation,       \* the last call of WidgetValidator.validateProps and its result
  island,           \* the mounted WidgetIsland: its props and its state
  updater           \* the WidgetDependencyUpdater script: its results, where run() is

manifestVars == << manifestCache, manifestLoads >>
rendererVars == << instance, attempts, reported, hostFaults >>
toolVars == << island, updater >>
pageVars == << sibling, validation, toolVars >>
registryVars == << widgets, loadingPromises, resolutions, calls, preloads, head,
                   probe, cleared >>

vars == << widgets, loadingPromises, resolutions, calls, preloads, head, probe,
           cleared, manifestCache, manifestLoads, instance, attempts, reported,
           hostFaults, sibling, validation, island, updater >>

Null == << >>
NoProbe == [op |-> "none", key |-> << >>, result |-> Null, inFlight |-> FALSE]

\* A component handle: how it was obtained and from which package.
DefaultExport(packageName) == << "default", packageName >>
ModuleObject(packageName) == << "module", packageName >>
WindowGlobal(packageName) == << "global", GetGlobalName(packageName) >>

\* `WidgetManifest | null`: the null of loadManifest
NullManifest == [null |-> TRUE, props |-> Undefined]

\* A WidgetError, with its originalError given by that error's message; null is
\* the `Error | null` of WidgetState.error.
NoError ==
  [null |-> TRUE, message |-> << >>, packageName |-> << >>, version |-> Undefined,
   originalError |-> << >>]

\* useState<WidgetState>({ component: null, loading: true, error: null, manifest: null })
InitialWidgetState ==
  [component |-> Null, loading |-> TRUE, error |-> NoError, manifest |-> NullManifest]

\* No WidgetRenderer is mounted.
NoInstance ==
  [mounted |-> FALSE, packageName |-> << >>, version |-> Undefined,
   defaultConfiguration |-> << >>, configuration |-> << >>,
   configurationOmitted |-> FALSE, widgetState |-> InitialWidgetState,
   hasError |-> FALSE, boundaryError |-> NoError]

\* No second WidgetRenderer shows a WidgetErrorBoundary; reported holds the
\* errors its caller's onError has been invoked with.
NoSibling ==
  [mounted |-> FALSE, packageName |-> << >>, version |-> Undefined,
   hasError |-> FALSE, boundaryError |-> NoError, reported |-> {}]

\* validateProps has not been called.
NoValidation ==
  [called |-> FALSE, props |-> << >>, manifest |-> NullManifest,
   result |-> [isValid |-> TRUE, errors |-> << >>]]

\* No WidgetIsland is mounted. maxWidgets 0 stands for an island without a
\* limit; widgets and availableWidgets hold widget ids; fetching tells whether a
\* StrapiAPI.getWidgets call of the island has yet to settle.
NoIsland ==
  [mounted |-> FALSE, editable |-> FALSE, maxWidgets |-> 0, initialCount |-> 0,
   widgets |-> << >>, availableWidgets |-> {}, isAddingWidget |-> FALSE,
   isLoading |-> FALSE, fetching |-> FALSE]

\* this.results.summary = {}
EmptySummary ==
  [empty |-> TRUE, totalPackagesProcessed |-> 0, successfulInstalls |-> 0,
   failedInstalls |-> 0, actualUpdates |-> 0, hasChanges |-> FALSE,
   updatedPackages |-> << >>]

\* this.results, as the constructor sets it
InitialResults ==
  [hasChanges |-> FALSE, updatedPackages |-> << >>, errors |-> << >>,
   summary |-> EmptySummary]

\* The script has not been started. pc tells where run() is: "idle", in its
\* install loop before packages[index] ("installing"), or over ("done");
\* dependencies is what package.json holds on disk, outputs what outputResults
\* has written, call by call, exitCode the exit code of the process and rejected
\* whether the promise of run() was rejected.
NoUpdater ==
  [pc |-> "idle", npmAuth |-> "none", packagesEnv |-> [kind |-> "missing"],
   forceUpdate |-> FALSE, packages |-> << >>, index |-> 0,
   originalDependencies |-> [n \in {} |-> << >>],
   dependencies |-> [n \in {} |-> << >>],
   results |-> InitialResults, outputs |-> << >>, exitCode |-> 0,
   rejected |-> FALSE]

Settled(p) == p.state \in {"fulfilled", "rejected"}

Init ==
  /\ widgets = EmptyMap
  /\ loadingPromises = EmptyMap
  /\ resolutions = << >>
  /\ calls = << >>
  /\ preloads = {}
  /\ head = {}
  /\ probe = NoProbe
  /\ cleared = {}
  /\ manifestCache = EmptyMap
  /\ manifestLoads = << >>
  /\ instance = NoInstance
  /\ attempts = << >>
  /\ reported = {}
  /\ hostFaults = {}
  /\ sibling = NoSibling
  /\ validation = NoValidation
  /\ island = NoIsland
  /\ updater = NoUpdater

\* --------------------------------------------------------------- loadWidget
\* Mutant: the terminal cache is never consulted.
HasWidgetNever(w, cacheKey) == FALSE

\* this.widgets.has(cacheKey)
HasWidget(w, cacheKey) == cacheKey \in DOMAIN w

\* Mutant: the in-flight map is never consulted.
HasLoadingPromiseNever(lp, cacheKey) == FALSE

\* this.loadingPromises.has(cacheKey)
HasLoadingPromise(lp, cacheKey) == cacheKey \in DOMAIN lp

\* loadWidgetFromRegistry up to its first await: the promise it returns, with
\* import(packageName) under way.
NewResolution(packageName, version) ==
  [ packageName   |-> packageName,
    versionString |-> VersionOrLatest(version),
    key           |-> CacheKey(packageName, version),
    state         |-> "pending",
    stage         |-> "import",
    value         |-> Null,
    message       |-> << >>,
    cause         |-> << >>,
    stale         |-> FALSE ]

\* The promise a loadWidget call returns when it waits for resolution rid.
CallOn(res, cacheKey, rid, owner, afterClear) ==
  [ key     |-> cacheKey,
    promise |-> rid,
    owner   |-> owner,
    state   |-> res[rid].state,
    value   |-> res[rid].value,
    message |-> res[rid].message,
    afterClear |-> afterClear ]

\* The promise a loadWidget call returns on a cache hit.
CallCached(w, cacheKey, afterClear) ==
  [ key     |-> cacheKey,
    promise |-> 0,
    owner   |-> FALSE,
    state   |-> "fulfilled",
    value   |-> w[cacheKey],
    message |-> << >>,
    afterClear |-> afterClear ]

\* loadWidget(packageName, version) up to its await, on the registry
\* reg = [widgets, loadingPromises, resolutions, calls, cleared].
LoadWidgetOn(reg, packageName, version) ==
  LET cacheKey == CacheKey(packageName, version)
      afterClear == cacheKey \in reg.cleared
      asked == [reg EXCEPT !.cleared = @ \ {cacheKey}]
  IN
  IF HasWidget(reg.widgets, cacheKey)
  THEN [asked EXCEPT !.calls = Append(@, CallCached(reg.widgets, cacheKey, afterClear))]
  ELSE IF HasLoadingPromise(reg.loadingPromises, cacheKey)
  THEN [asked EXCEPT !.calls =
          Append(@, CallOn(reg.resolutions, cacheKey,
                           reg.loadingPromises[cacheKey], FALSE, afterClear))]
  ELSE LET started == Append(reg.resolutions, NewResolution(packageName, version))
           rid == Len(started)
       IN  [asked EXCEPT
              !.resolutions = started,
              !.loadingPromises = MapSet(@, cacheKey, rid),
              !.calls = Append(@, CallOn(started, cacheKey, rid, TRUE, afterClear))]

Registry ==
  [ widgets |-> widgets, loadingPromises |-> loadingPromises,
    resolutions |-> resolutions, calls |-> calls, cleared |-> cleared ]

WithinBounds(reg) == Len(reg.calls) <= MaxCalls

LoadWidget(packageName, version) ==
  LET reg == LoadWidgetOn(Registry, packageName, version) IN
  /\ WithinBounds(reg)
  /\ widgets' = reg.widgets
  /\ loadingPromises' = reg.loadingPromises
  /\ resolutions' = reg.resolutions
  /\ calls' = reg.calls
  /\ cleared' = reg.cleared
  /\ probe' = NoProbe
  /\ UNCHANGED << preloads, head, manifestVars, rendererVars, pageVars >>

\* ---------------------------------------------------------- WidgetValidator
\* String.prototype.toLowerCase on one character
ToLowerCase(c) ==
  IF \E i \in DOMAIN UpperCase : UpperCase[i] = c
  THEN LowerCase[CHOOSE i \in DOMAIN UpperCase : UpperCase[i] = c]
  ELSE c

\* Mutant: the declared type is compared as it is written.
LowerCaseOfAsWritten(s) == s

\* propConfig.type.toLowerCase()
LowerCaseOf(s) == [i \in DOMAIN s |-> ToLowerCase(s[i])]

StringType == <<"s", "t", "r", "i", "n", "g">>
NumberType == <<"n", "u", "m", "b", "e", "r">>
AnyType == <<"a", "n", "y">>

FunctionType == <<"f", "u", "n", "c", "t", "i", "o", "n">>

\* An object is the sequence of its own entries, in Object.entries order.
HasOwn(props, propName) == \E i \in DOMAIN props : props[i].name = propName

\* Some of the properties every plain object inherits from Object.prototype,
\* all of them functions.
ObjectPrototypeKeys ==
  { <<"toString">>, <<"constructor">>, <<"valueOf">>, <<"hasOwnProperty">> }

\* propName in props: an own property or an inherited one
HasProp(props, propName) ==
  HasOwn(props, propName) \/ propName \in ObjectPrototypeKeys

\* typeof props[propName], for a propName in props
TypeOf(props, propName) ==
  IF HasOwn(props, propName)
  THEN props[CHOOSE i \in DOMAIN props : props[i].name = propName].type
  ELSE FunctionType

\* `Required prop '${propName}' is missing`
MissingMessage(propName) == <<"Required prop '">> \o propName \o <<"' is missing">>

\* `Prop '${propName}' should be of type '${expectedType}', got '${actualType}'`
TypeMessage(propName, expectedType, actualType) ==
  <<"Prop '">> \o propName \o <<"' should be of type '">> \o expectedType
    \o <<"', got '">> \o actualType \o <<"'">>

\* The errors one entry of manifest.props pushes.
PropErrors(props, propConfig) ==
  LET propName == propConfig.name
      expectedType == LowerCaseOf(propConfig.type)
      missing == IF propConfig.required /\ ~HasProp(props, propName)
                 THEN << MissingMessage(propName) >> ELSE << >>
      mismatch == IF HasProp(props, propName) /\ propConfig.type # << >>
                     /\ TypeOf(props, propName) # expectedType
                     /\ expectedType # AnyType
                  THEN << TypeMessage(propName, expectedType, TypeOf(props, propName)) >>
                  ELSE << >>
  IN  missing \o mismatch

\* Object.entries(manifest.props).forEach(...)
RECURSIVE AllPropErrors(_, _)
AllPropErrors(props, declared) ==
  IF declared = << >> THEN << >>
  ELSE PropErrors(props, Head(declared)) \o AllPropErrors(props, Tail(declared))

\* WidgetValidator.validateProps(props, manifest)
ValidateProps(props, manifest) ==
  IF manifest.props = Undefined
  THEN [isValid |-> TRUE, errors |-> << >>]
  ELSE LET errors == AllPropErrors(props, manifest.props)
       IN  [isValid |-> Len(errors) = 0, errors |-> errors]

\* errors.join(', ')
RECURSIVE JoinErrors(_)
JoinErrors(errors) ==
  IF errors = << >> THEN << >>
  ELSE IF Len(errors) = 1 THEN Head(errors)
  ELSE Head(errors) \o <<", ">> \o JoinErrors(Tail(errors))

\* WidgetValidator.validateProps(props, manifest), called on the inputs drawn
ValidatePropsCall ==
  /\ ~validation.called
  /\ validation' =
       [validation EXCEPT
          !.called = TRUE,
          !.result = ValidateProps(validation.props, validation.manifest)]
  /\ UNCHANGED << widgets, loadingPromises, resolutions, calls, preloads, head,
                  probe, cleared, manifestVars, rendererVars, sibling, toolVars >>

\* ----------------------------------------------------------- WidgetMetadata
\* The package.json bodies the CDN serves: one without widgetConfig, one whose
\* widgetConfig.props declares a required string prop.
TitleProp == [name |-> <<"title">>, type |-> StringType, required |-> TRUE]
PackageJsons ==
  { [hasWidgetConfig |-> FALSE, props |-> Undefined],
    [hasWidgetConfig |-> TRUE, props |-> << TitleProp >>] }

\* The manifest loadManifest builds: props: packageJson.widgetConfig?.props
ManifestOf(packageJson) ==
  [null |-> FALSE,
   props |-> IF packageJson.hasWidgetConfig THEN packageJson.props ELSE Undefined]

\* this.cache.has(cacheKey)
HasManifest(cache, cacheKey) == cacheKey \in DOMAIN cache

\* loadManifest(packageName, version) up to its first await, on the world
\* w = [manifestCache, manifestLoads, ...]: the promise it returns is fulfilled
\* on a cache hit and waits for fetch(manifestUrl) otherwise.
LoadManifestOn(w, packageName, version) ==
  LET cacheKey == CacheKey(packageName, version)
      afterFailure == \E m \in DOMAIN w.manifestLoads :
                        /\ w.manifestLoads[m].key = cacheKey
                        /\ w.manifestLoads[m].state = "fulfilled"
                        /\ w.manifestLoads[m].result.null
  IN
  IF HasManifest(w.manifestCache, cacheKey)
  THEN [w EXCEPT !.manifestLoads =
          Append(@, [key |-> cacheKey, state |-> "fulfilled", stage |-> "done",
                     fetched |-> FALSE, afterFailure |-> afterFailure,
                     result |-> w.manifestCache[cacheKey]])]
  ELSE [w EXCEPT !.manifestLoads =
          Append(@, [key |-> cacheKey, state |-> "pending", stage |-> "fetch",
                     fetched |-> TRUE, afterFailure |-> afterFailure,
                     result |-> NullManifest])]

\* loadManifest n returns: `return manifest` or, from the catch, `return null`
ManifestLoadsAfter(loads, n, result) ==
  [loads EXCEPT ![n] = [@ EXCEPT !.state = "fulfilled", !.stage = "done",
                                 !.result = result]]

\* Mutant: a failed load is remembered as null.
ManifestCacheAfterFailureRemembered(cache, cacheKey) ==
  MapSet(cache, cacheKey, NullManifest)

\* WidgetMetadata.cache after a loadManifest went through its catch
ManifestCacheAfterFailure(cache, cacheKey) == cache

\* WidgetMetadata.cache after this.cache.set(cacheKey, manifest)
ManifestCacheAfterSuccess(cache, cacheKey, manifest) ==
  MapSet(cache, cacheKey, manifest)

\* ----------------------------------------------------------- WidgetRenderer
\* new WidgetError(message, packageName, version, originalError)
WidgetError(message, packageName, version, originalError) ==
  [null |-> FALSE, message |-> message, packageName |-> packageName,
   version |-> version, originalError |-> originalError]

\* `Invalid configuration: ${validation.errors.join(', ')}`
InvalidConfigurationMessage(errors) ==
  <<"Invalid configuration: ">> \o JoinErrors(errors)

\* `Failed to load widget ${packageName}`
FailedToLoadMessage(packageName) == <<"Failed to load widget ">> \o packageName

\* `Widget runtime error: ${error.message}`
WidgetRuntimeMessage(message) == <<"Widget runtime error: ">> \o message

\* `Runtime error in widget ${packageName}`
RuntimeErrorMessage(packageName) == <<"Runtime error in widget ">> \o packageName

\* The entry of object o under key name.
EntryOf(o, name) == o[CHOOSE i \in DOMAIN o : o[i].name = name]

\* Mutant: the spreads the other way round, { ...second, ...first }.
SpreadFirstWins(first, second) ==
  [i \in DOMAIN second |->
     IF HasOwn(first, second[i].name) THEN EntryOf(first, second[i].name)
     ELSE second[i]]
    \o SelectSeq(first, LAMBDA e : ~HasOwn(second, e.name))

\* { ...first, ...second }: the keys of first in their order, each with the
\* value second has for it if it has one, then the other keys of second.
Spread(first, second) ==
  [i \in DOMAIN first |->
     IF HasOwn(second, first[i].name) THEN EntryOf(second, first[i].name)
     ELSE first[i]]
    \o SelectSeq(second, LAMBDA e : ~HasOwn(first, e.name))

\* widgetProps.configuration, as the render of the instance computes it:
\* { ...widget.attributes.configuration, ...configuration }
WidgetPropsConfiguration(inst) ==
  Spread(inst.defaultConfiguration, inst.configuration)

\* Mutant: the load starts with the error of the last one kept.
StateOnStartKeepsError(prev) == [prev EXCEPT !.loading = TRUE]

\* Mutant: the load starts without the loading flag.
StateOnStartWithoutLoading(prev) == [prev EXCEPT !.error = NoError]

\* setWidgetState(prev => ({ ...prev, loading: true, error: null }))
StateOnStart(prev) == [prev EXCEPT !.loading = TRUE, !.error = NoError]

\* Mutant: the success state is stored without the manifest.
StateOnSuccessWithoutManifest(component, manifest) ==
  [component |-> component, loading |-> FALSE, error |-> NoError,
   manifest |-> NullManifest]

\* setWidgetState({ component, loading: false, error: null, manifest })
StateOnSuccess(component, manifest) ==
  [component |-> component, loading |-> FALSE, error |-> NoError,
   manifest |-> manifest]

\* setWidgetState({ component: null, loading: false, error: widgetError, manifest: null })
StateOnFailure(widgetError) ==
  [component |-> Null, loading |-> FALSE, error |-> widgetError,
   manifest |-> NullManifest]

\* setWidgetState(prev => ({ ...prev, error: widgetError }))
StateOnRuntimeError(prev, widgetError) == [prev EXCEPT !.error = widgetError]

\* The branch the render function takes.
Branch(ws) ==
  IF ws.loading THEN "loading"
  ELSE IF ~ws.error.null THEN "error"
  ELSE IF ws.component # Null THEN "loaded"
  ELSE "unknown"

\* The error and loaded branches render a WidgetErrorBoundary at the same place;
\* the other branches render none, and a boundary mounted anew starts from
\* useState(false), useState(null).
HasBoundary(ws) == Branch(ws) \in {"error", "loaded"}

\* setWidgetState and the render that follows; a state update of an unmounted
\* component is dropped.
SetWidgetState(inst, ws) ==
  IF ~inst.mounted THEN inst
  ELSE IF HasBoundary(ws) THEN [inst EXCEPT !.widgetState = ws]
  ELSE [inst EXCEPT !.widgetState = ws, !.hasError = FALSE,
                    !.boundaryError = NoError]

\* What the caller's onError receives; kind and underlying are kept with it: the
\* kind of failure and the message of the error that caused it, if any.
Report(kind, widgetError, underlying) ==
  [kind |-> kind, error |-> widgetError, underlying |-> underlying]

\* Mutant: a configuration is never found invalid.
ValidationFailsNever(configuration, manifest) == FALSE

\* Mutant: without a manifest the configuration counts as invalid.
ValidationFailsWithoutManifest(configuration, manifest) ==
  \/ manifest.null
  \/ manifest.props # Undefined /\ ~ValidateProps(configuration, manifest).isValid

\* if (manifest?.props) { ... if (!validation.isValid) throw ... }
ValidationFails(configuration, manifest) ==
  /\ ~manifest.null
  /\ manifest.props # Undefined
  /\ ~ValidateProps(configuration, manifest).isValid

\* The catch of the loadWidget callback: error state, onError, attempt over.
AttemptFails(w, a, kind, widgetError, underlying) ==
  [w EXCEPT
     !.instance = SetWidgetState(@, StateOnFailure(widgetError)),
     !.reported = @ \cup { Report(kind, widgetError, underlying) },
     !.attempts[a] = [@ EXCEPT !.stage = "done", !.outcome = "error",
                               !.error = widgetError]]

\* The loadWidget callback after `await widgetRegistry.loadWidget(...)`.
AfterModule(w, a) ==
  LET t == w.attempts[a]
      c == w.calls[t.call]
  IN  IF c.state = "fulfilled"
      THEN [w EXCEPT
              !.instance = SetWidgetState(@, StateOnSuccess(c.value, t.manifest)),
              !.attempts[a] = [@ EXCEPT !.stage = "done", !.outcome = "loaded",
                                        !.onLoad = @ + 1]]
      ELSE AttemptFails(w, a, "load",
                        WidgetError(FailedToLoadMessage(t.packageName),
                                    t.packageName, t.version, c.message),
                        c.message)

\* The loadWidget callback after `await WidgetMetadata.loadManifest(...)`:
\* validation, then widgetRegistry.loadWidget, whose promise may be fulfilled
\* already.
AfterManifest(w, a) ==
  LET t == w.attempts[a]
      manifest == w.manifestLoads[t.manifestLoad].result
  IN  IF ValidationFails(t.configuration, manifest)
      THEN AttemptFails(w, a, "validation",
                        WidgetError(InvalidConfigurationMessage(
                                      ValidateProps(t.configuration, manifest).errors),
                                    t.packageName, t.version, << >>),
                        << >>)
      ELSE LET called == LoadWidgetOn(w, t.packageName, t.version)
               i == Len(called.calls)
               waiting == [called EXCEPT
                             !.attempts[a] = [@ EXCEPT !.stage = "module",
                                                       !.call = i,
                                                       !.manifest = manifest]]
           IN  IF Settled(called.calls[i]) THEN AfterModule(waiting, a)
               ELSE waiting

\* The continuation of attempt a, if the promise it awaits has settled.
StepAttempt(w, a) ==
  LET t == w.attempts[a] IN
  IF t.stage = "manifest" /\ Settled(w.manifestLoads[t.manifestLoad])
  THEN AfterManifest(w, a)
  ELSE IF t.stage = "module" /\ Settled(w.calls[t.call])
  THEN AfterModule(w, a)
  ELSE w

\* The promise reactions of one job: every attempt whose promise has settled
\* continues, in the order the attempts were started.
RECURSIVE ContinueFrom(_, _)
ContinueFrom(w, a) ==
  IF a > Len(w.attempts) THEN w ELSE ContinueFrom(StepAttempt(w, a), a + 1)

\* loadWidget(): the callback of the WidgetRenderer, up to its first suspension;
\* trigger is what called it: the effect after the mount or after a render with
\* new props, or a Retry button.
StartAttempt(w, trigger) ==
  LET inst == w.instance
      started == [w EXCEPT
                    !.instance = SetWidgetState(@, StateOnStart(@.widgetState))]
      fetching == LoadManifestOn(started, inst.packageName, inst.version)
      a == Len(w.attempts) + 1
      waiting ==
        [fetching EXCEPT
           !.attempts =
             Append(@, [trigger |-> trigger,
                        packageName |-> inst.packageName,
                        version |-> inst.version,
                        configuration |-> inst.configuration,
                        stage |-> "manifest",
                        manifestLoad |-> Len(fetching.manifestLoads),
                        call |-> 0,
                        manifest |-> NullManifest,
                        outcome |-> "pending",
                        error |-> NoError,
                        onLoad |-> 0])]
  IN  StepAttempt(waiting, a)

\* The part of the state the renderer and the two caches share.
World ==
  [ widgets |-> widgets, loadingPromises |-> loadingPromises,
    resolutions |-> resolutions, calls |-> calls, cleared |-> cleared,
    manifestCache |-> manifestCache, manifestLoads |-> manifestLoads,
    instance |-> instance, attempts |-> attempts, reported |-> reported ]

WorldWithinBounds(w) ==
  /\ Len(w.calls) <= MaxCalls
  /\ Len(w.manifestLoads) <= MaxManifestLoads

\* The state after the job: the world w and what is left as it was.
Becomes(w) ==
  /\ WorldWithinBounds(w)
  /\ widgets' = w.widgets
  /\ loadingPromises' = w.loadingPromises
  /\ resolutions' = w.resolutions
  /\ calls' = w.calls
  /\ cleared' = w.cleared
  /\ manifestCache' = w.manifestCache
  /\ manifestLoads' = w.manifestLoads
  /\ instance' = w.instance
  /\ attempts' = w.attempts
  /\ reported' = w.reported
  /\ probe' = NoProbe

\* ------------------------------------------------------------- settlement
\* Mutant: the outcome is stored in the terminal cache, success or failure.
WidgetsAfterSettleAlways(w, cacheKey, ok, component) ==
  MapSet(w, cacheKey, component)

\* loadWidget after `await loadingPromise`: this.widgets.set on success
WidgetsAfterSettle(w, cacheKey, ok, component) ==
  IF ok THEN MapSet(w, cacheKey, component) ELSE w

\* Mutant: the in-flight entry is never deleted.
LoadingAfterSettleKept(lp, cacheKey, ok) == lp

\* Mutant: the in-flight entry is deleted on success only.
LoadingAfterSettleOnSuccessOnly(lp, cacheKey, ok) ==
  IF ok THEN MapDelete(lp, cacheKey) ELSE lp

\* loadWidget after `await loadingPromise`: this.loadingPromises.delete, both ways
LoadingAfterSettle(lp, cacheKey, ok) == MapDelete(lp, cacheKey)

\* Every loadWidget promise that waits for resolution rid takes its outcome.
CallsAfterSettle(cs, rid, ok, component, message) ==
  [i \in DOMAIN cs |->
     IF cs[i].promise = rid /\ cs[i].state = "pending"
     THEN [cs[i] EXCEPT !.state = IF ok THEN "fulfilled" ELSE "rejected",
                        !.value = component,
                        !.message = message]
     ELSE cs[i]]

\* Mutant: Promise.all over the bare loadWidget promises.
PreloadOutcomePromiseAll(itemStates) ==
  IF \E i \in DOMAIN itemStates : itemStates[i] = "rejected"
  THEN "rejected"
  ELSE IF \E i \in DOMAIN itemStates : itemStates[i] = "pending"
  THEN "pending"
  ELSE "fulfilled"

\* preloadWidgets: each loadWidget promise with .catch(() => null) behind it,
\* all of them under Promise.allSettled.
PreloadOutcome(itemStates) ==
  IF \E i \in DOMAIN itemStates : itemStates[i] = "pending"
  THEN "pending"
  ELSE "fulfilled"

PreloadsAfter(ps, cs) ==
  { [p EXCEPT !.state =
       IF p.state = "pending"
       THEN PreloadOutcome([j \in DOMAIN p.items |-> cs[p.items[j]].state])
       ELSE @] : p \in ps }

\* Resolution rid settles and the reactions to it run: the continuation of the
\* loadWidget call that started it, then the promises handed to the callers.
Settle(rid, ok, component, message, cause) ==
  LET r == resolutions[rid]
      cs == CallsAfterSettle(calls, rid, ok, component, message)
      settled ==
        [World EXCEPT
           !.resolutions =
             [resolutions EXCEPT ![rid] =
                [r EXCEPT !.state = IF ok THEN "fulfilled" ELSE "rejected",
                          !.stage = "done",
                          !.value = component,
                          !.message = message,
                          !.cause = cause]],
           !.widgets = WidgetsAfterSettle(widgets, r.key, ok, component),
           !.loadingPromises = LoadingAfterSettle(loadingPromises, r.key, ok),
           !.calls = cs]
  IN  /\ Becomes(ContinueFrom(settled, 1))
      /\ preloads' = PreloadsAfter(preloads, cs)
      /\ UNCHANGED << hostFaults, pageVars >>

\* ------------------------------------------------- loadWidgetFromRegistry
\* Mutant: the module object is returned, default export or not.
ExportOfModuleObject(packageName) == ModuleObject(packageName)

\* widgetModule.default || widgetModule
ExportOf(packageName) ==
  IF HasDefaultExport(packageName) THEN DefaultExport(packageName)
  ELSE ModuleObject(packageName)

\* import(packageName) resolves: return widgetModule.default || widgetModule
ImportSucceeds(rid) ==
  /\ rid \in DOMAIN resolutions
  /\ resolutions[rid].stage = "import"
  /\ Settle(rid, TRUE, ExportOf(resolutions[rid].packageName), << >>, << >>)
  /\ UNCHANGED head

\* import(packageName) rejects: loadFromCDN creates the script element and
\* appends it to document.head.
ImportFails(rid) ==
  /\ rid \in DOMAIN resolutions
  /\ resolutions[rid].stage = "import"
  /\ resolutions' = [resolutions EXCEPT ![rid].stage = "cdn"]
  /\ head' = head \cup {rid}
  /\ probe' = NoProbe
  /\ UNCHANGED << widgets, loadingPromises, calls, preloads, cleared,
                  manifestVars, rendererVars, pageVars >>

\* script.src of the element resolution rid injected
ScriptSrc(rid) ==
  CdnUrl(resolutions[rid].packageName, resolutions[rid].versionString)

\* document.head after script.onload has run
HeadAfterOnLoad(h, rid, widgetOnWindow) ==
  IF widgetOnWindow THEN h \ {rid} ELSE h

\* document.head after script.onerror has run
HeadAfterOnError(h, rid) == h \ {rid}

\* The error loadWidgetFromRegistry throws from its outer catch.
RegistryError(packageName, cause) == CouldNotBeLoadedMessage(packageName)

\* script.onload: the global is read from window
ScriptOnLoad(rid, widgetOnWindow) ==
  /\ rid \in DOMAIN resolutions
  /\ resolutions[rid].stage = "cdn"
  /\ LET p == resolutions[rid].packageName IN
     IF widgetOnWindow
     THEN Settle(rid, TRUE, WindowGlobal(p), << >>, << >>)
     ELSE Settle(rid, FALSE, Null, RegistryError(p, NotFoundMessage(p)),
                 NotFoundMessage(p))
  /\ head' = HeadAfterOnLoad(head, rid, widgetOnWindow)

\* script.onerror
ScriptOnError(rid) ==
  /\ rid \in DOMAIN resolutions
  /\ resolutions[rid].stage = "cdn"
  /\ LET p == resolutions[rid].packageName
         cause == CdnFailedMessage(ScriptSrc(rid))
     IN  Settle(rid, FALSE, Null, RegistryError(p, cause), cause)
  /\ head' = HeadAfterOnError(head, rid)

\* ------------------------------------------------------------ other methods
\* clearCache()
ClearCache ==
  /\ widgets' = EmptyMap
  /\ loadingPromises' = EmptyMap
  /\ resolutions' = [rid \in DOMAIN resolutions |->
                       IF Settled(resolutions[rid]) THEN resolutions[rid]
                       ELSE [resolutions[rid] EXCEPT !.stale = TRUE]]
  /\ cleared' = CacheKeys
  /\ probe' = NoProbe
  /\ UNCHANGED << calls, preloads, head, manifestVars, rendererVars, pageVars >>

\* widgets.map(widget => this.loadWidget(...)): the calls run one after another
\* in the same job.
RECURSIVE LoadAll(_, _)
LoadAll(reg, list) ==
  IF list = << >> THEN reg
  ELSE LoadAll(LoadWidgetOn(reg, Head(list).packageName, Head(list).version),
               Tail(list))

PreloadLists == UNION { [1..n -> Requests] : n \in 0..MaxCalls }

\* preloadWidgets(list)
PreloadWidgets(list) ==
  LET reg == LoadAll(Registry, list)
      items == [i \in 1..Len(list) |-> Len(calls) + i]
  IN  /\ WithinBounds(reg)
      /\ widgets' = reg.widgets
      /\ loadingPromises' = reg.loadingPromises
      /\ resolutions' = reg.resolutions
      /\ calls' = reg.calls
      /\ cleared' = reg.cleared
      /\ preloads' = PreloadsAfter(
                       preloads \cup {[list |-> list, items |-> items,
                                        state |-> "pending"]},
                       reg.calls)
      /\ probe' = NoProbe
      /\ UNCHANGED << head, manifestVars, rendererVars, pageVars >>

\* what getWidget returns: this.widgets.get(cacheKey)
GetWidgetResult(w, lp, cacheKey) ==
  IF cacheKey \in DOMAIN w THEN w[cacheKey] ELSE Undefined

\* Mutant: a key in flight counts as loaded.
IsWidgetLoadedResultOrLoading(w, lp, cacheKey) ==
  cacheKey \in (DOMAIN w) \cup (DOMAIN lp)

\* what isWidgetLoaded returns: this.widgets.has(cacheKey)
IsWidgetLoadedResult(w, lp, cacheKey) == cacheKey \in DOMAIN w

\* getWidget(packageName, version)
GetWidget(packageName, version) ==
  LET cacheKey == CacheKey(packageName, version) IN
  /\ probe' = [op |-> "getWidget", key |-> cacheKey,
               result |-> GetWidgetResult(widgets, loadingPromises, cacheKey),
               inFlight |-> cacheKey \in DOMAIN loadingPromises]
  /\ UNCHANGED << widgets, loadingPromises, resolutions, calls, preloads, head,
                  cleared, manifestVars, rendererVars, pageVars >>

\* isWidgetLoaded(packageName, version)
IsWidgetLoaded(packageName, version) ==
  LET cacheKey == CacheKey(packageName, version) IN
  /\ probe' = [op |-> "isWidgetLoaded", key |-> cacheKey,
               result |-> IsWidgetLoadedResult(widgets, loadingPromises, cacheKey),
               inFlight |-> cacheKey \in DOMAIN loadingPromises]
  /\ UNCHANGED << widgets, loadingPromises, resolutions, calls, preloads, head,
                  cleared, manifestVars, rendererVars, pageVars >>

\* String.prototype.split(separator), the separator one character: the pieces
\* between its occurrences, the empty ones included.
RECURSIVE Split(_, _)
Split(s, separator) ==
  IF \A i \in DOMAIN s : s[i] # separator THEN << s >>
  ELSE LET i == CHOOSE j \in DOMAIN s :
                  s[j] = separator /\ \A k \in 1..(j - 1) : s[k] # separator
       IN  << SubSeq(s, 1, i - 1) >> \o Split(SubSeq(s, i + 1, Len(s)), separator)

\* const [packageName, version] = cacheKey.split("@"); { packageName, version }
LoadedEntry(cacheKey) ==
  LET parts == Split(cacheKey, "@") IN
  [packageName |-> IF Len(parts) >= 1 THEN parts[1] ELSE Undefined,
   version |-> IF Len(parts) >= 2 THEN parts[2] ELSE Undefined]

\* for (const [cacheKey] of this.widgets.entries()) loaded.push(...): one entry
\* for each key; the model keeps no insertion order, the list is in some order.
RECURSIVE LoadedOf(_)
LoadedOf(keys) ==
  IF keys = {} THEN << >>
  ELSE LET k == CHOOSE x \in keys : TRUE
       IN  << LoadedEntry(k) >> \o LoadedOf(keys \ {k})

\* getLoadedWidgets()
GetLoadedWidgets ==
  /\ probe' = [op |-> "getLoadedWidgets", key |-> << >>,
               result |-> LoadedOf(DOMAIN widgets), inFlight |-> FALSE]
  /\ UNCHANGED << widgets, loadingPromises, resolutions, calls, preloads, head,
                  cleared, manifestVars, rendererVars, pageVars >>

\* ------------------------------------------------- WidgetMetadata, its steps
\* WidgetMetadata.loadManifest(packageName, version), called by the host
LoadManifest(packageName, version) ==
  /\ Becomes(LoadManifestOn(World, packageName, version))
  /\ UNCHANGED << preloads, head, hostFaults, pageVars >>

\* loadManifest n returns result and leaves the cache as cache; the callers that
\* await it continue.
ManifestReturns(n, result, cache) ==
  /\ Becomes(ContinueFrom(
               [World EXCEPT !.manifestLoads = ManifestLoadsAfter(@, n, result),
                             !.manifestCache = cache], 1))
  /\ UNCHANGED << preloads, head, hostFaults, pageVars >>

\* fetch(manifestUrl) rejects: the catch returns null
FetchRejects(n) ==
  /\ n \in DOMAIN manifestLoads
  /\ manifestLoads[n].stage = "fetch"
  /\ ManifestReturns(n, NullManifest,
                     ManifestCacheAfterFailure(manifestCache, manifestLoads[n].key))

\* fetch(manifestUrl) resolves: !response.ok throws into the catch, otherwise
\* response.json() is awaited
FetchResponds(n, ok) ==
  /\ n \in DOMAIN manifestLoads
  /\ manifestLoads[n].stage = "fetch"
  /\ IF ok
     THEN /\ manifestLoads' = [manifestLoads EXCEPT ![n].stage = "json"]
          /\ probe' = NoProbe
          /\ UNCHANGED << widgets, loadingPromises, resolutions, calls, preloads,
                          head, cleared, manifestCache, rendererVars, pageVars >>
     ELSE ManifestReturns(n, NullManifest,
                          ManifestCacheAfterFailure(manifestCache,
                                                    manifestLoads[n].key))

\* response.json() resolves: the manifest is built, cached and returned
JsonResolves(n, packageJson) ==
  /\ n \in DOMAIN manifestLoads
  /\ manifestLoads[n].stage = "json"
  /\ ManifestReturns(n, ManifestOf(packageJson),
                     ManifestCacheAfterSuccess(manifestCache, manifestLoads[n].key,
                                               ManifestOf(packageJson)))

\* response.json() rejects: the catch returns null
JsonRejects(n) ==
  /\ n \in DOMAIN manifestLoads
  /\ manifestLoads[n].stage = "json"
  /\ ManifestReturns(n, NullManifest,
                     ManifestCacheAfterFailure(manifestCache, manifestLoads[n].key))

\* WidgetMetadata.clearCache()
ClearManifestCache ==
  /\ manifestCache' = EmptyMap
  /\ probe' = NoProbe
  /\ UNCHANGED << widgets, loadingPromises, resolutions, calls, preloads, head,
                  cleared, manifestLoads, rendererVars, pageVars >>

\* ------------------------------------------------- WidgetRenderer, its steps
\* The configurations a caller passes: one without the declared prop and one
\* with it, its value of the declared type.
Configurations ==
  { << >>, << [name |-> <<"title">>, type |-> StringType] >> }

\* The messages of the errors a widget or the browser raises.
ErrorMessages == { <<"boom">> }

\* The WidgetRenderer mounts: first render, then the effect calls loadWidget().
\* widget.attributes gives the package, the version and the default
\* configuration; the configuration prop is passed or left out, and left out it
\* is the {} of the parameter default.
MountWith(packageName, version, defaultConfiguration, configuration, omitted) ==
  /\ instance = NoInstance
  /\ omitted => configuration = << >>
  /\ Becomes(StartAttempt(
               [World EXCEPT !.instance =
                  [NoInstance EXCEPT !.mounted = TRUE,
                                     !.packageName = packageName,
                                     !.version = version,
                                     !.defaultConfiguration = defaultConfiguration,
                                     !.configuration = configuration,
                                     !.configurationOmitted = omitted]],
               "mount"))
  /\ UNCHANGED << preloads, head, hostFaults, pageVars >>

\* A WidgetRenderer mounts for a widget without a default configuration, its
\* configuration prop passed.
Mount(packageName, version, configuration) ==
  MountWith(packageName, version, << >>, configuration, FALSE)

\* The caller renders the WidgetRenderer again with a configuration object: the
\* loadWidget callback is made anew and the effect calls it.
Rerender(configuration) ==
  /\ instance.mounted
  /\ Becomes(StartAttempt(
               [World EXCEPT !.instance =
                  [@ EXCEPT !.configuration = configuration,
                            !.configurationOmitted = FALSE]],
               "render"))
  /\ UNCHANGED << preloads, head, hostFaults, pageVars >>

\* A render of a WidgetRenderer whose configuration prop is left out: the
\* parameter default {} is a new object at every render, so useCallback makes
\* loadWidget anew and the effect calls it. Every setWidgetState is followed by a
\* render, the one at the start of loadWidget included (its updater returns a
\* new object), so this effect is due after every render.
DefaultConfigurationEffect ==
  /\ instance.mounted
  /\ instance.configurationOmitted
  /\ Becomes(StartAttempt(World, "render"))
  /\ UNCHANGED << preloads, head, hostFaults, pageVars >>

\* Whether a Retry (or Reload) button is on display.
CanRetry(inst) ==
  \/ Branch(inst.widgetState) \in {"error", "unknown"}
  \/ HasBoundary(inst.widgetState) /\ inst.hasError

\* A click on Retry: the boundary's button resets the boundary first; both
\* buttons call loadWidget().
Retry ==
  /\ instance.mounted
  /\ CanRetry(instance)
  /\ Becomes(StartAttempt(
               [World EXCEPT !.instance =
                  [@ EXCEPT !.hasError = FALSE, !.boundaryError = NoError]],
               "retry"))
  /\ UNCHANGED << preloads, head, hostFaults, pageVars >>

\* Whether the widget component is rendered.
WidgetRendered(inst) ==
  /\ inst.mounted
  /\ Branch(inst.widgetState) = "loaded"
  /\ ~inst.hasError

\* The mounted widget calls the onError prop it was given.
WidgetOnError(message) ==
  LET widgetError == WidgetError(WidgetRuntimeMessage(message),
                                 instance.packageName, instance.version, message)
  IN  /\ WidgetRendered(instance)
      /\ instance' = SetWidgetState(
                       instance,
                       StateOnRuntimeError(instance.widgetState, widgetError))
      /\ reported' = reported \cup { Report("widget", widgetError, message) }
      /\ probe' = NoProbe
      /\ UNCHANGED << widgets, loadingPromises, resolutions, calls, preloads, head,
                      cleared, manifestVars, attempts, hostFaults, pageVars >>

\* handleError: new WidgetError(`Runtime error in widget ...`, packageName,
\* undefined, new Error(event.message))
BoundaryError(inst, message) ==
  WidgetError(RuntimeErrorMessage(inst.packageName), inst.packageName,
              Undefined, message)

\* Whether the WidgetErrorBoundary of the instance is mounted, its listener on
\* window with it.
Listens(inst) == inst.mounted /\ HasBoundary(inst.widgetState)

\* The browser dispatches an error event on window: the handleError of every
\* mounted WidgetErrorBoundary runs, each a listener on the same window.
WindowErrorEvent(message) ==
  LET widgetError == BoundaryError(instance, message)
      siblingError == BoundaryError(sibling, message)
  IN
  /\ Listens(instance) \/ sibling.mounted
  /\ instance' = IF Listens(instance)
                 THEN [instance EXCEPT !.hasError = TRUE,
                                       !.boundaryError = widgetError]
                 ELSE instance
  /\ reported' = IF Listens(instance)
                 THEN reported \cup { Report("event", widgetError, message) }
                 ELSE reported
  /\ sibling' = IF sibling.mounted
                THEN [sibling EXCEPT
                        !.hasError = TRUE,
                        !.boundaryError = siblingError,
                        !.reported = @ \cup { Report("event", siblingError, message) }]
                ELSE sibling
  /\ probe' = NoProbe
  /\ UNCHANGED << widgets, loadingPromises, resolutions, calls, preloads, head,
                  cleared, manifestVars, attempts, hostFaults, validation,
                  toolVars >>

\* A second WidgetRenderer on the page has loaded its widget and renders it
\* inside its WidgetErrorBoundary; how it got there is left out.
ShowSibling(packageName, version) ==
  /\ sibling = NoSibling
  /\ sibling' = [NoSibling EXCEPT !.mounted = TRUE, !.packageName = packageName,
                                  !.version = version]
  /\ probe' = NoProbe
  /\ UNCHANGED << widgets, loadingPromises, resolutions, calls, preloads, head,
                  cleared, manifestVars, rendererVars, validation, toolVars >>

\* Whether the widget of the named WidgetRenderer is on display.
WidgetShown(source) ==
  IF source = "instance" THEN WidgetRendered(instance)
  ELSE sibling.mounted /\ ~sibling.hasError

\* The widget of one WidgetRenderer throws outside its render (in an event
\* handler, a timer): the browser reports the uncaught exception as an error
\* event on window.
UncaughtIn(source, message) ==
  /\ WidgetShown(source)
  /\ WindowErrorEvent(message)

\* The widget component throws while it renders. WidgetErrorBoundary is a
\* function component: it has neither getDerivedStateFromError nor
\* componentDidCatch, so React hands the exception to the ancestors of the
\* WidgetRenderer and takes the WidgetRenderer off the page.
WidgetRenderThrows(message) ==
  /\ WidgetRendered(instance)
  /\ hostFaults' = hostFaults \cup { message }
  /\ instance' = [instance EXCEPT !.mounted = FALSE]
  /\ probe' = NoProbe
  /\ UNCHANGED << widgets, loadingPromises, resolutions, calls, preloads, head,
                  cleared, manifestVars, attempts, reported, pageVars >>

\* -------------------------------------------------------------- WidgetIsland
\* The widgets StrapiAPI.getWidgets knows, by id, and whether each is active.
ServerWidgets ==
  { [id |-> 1, isActive |-> TRUE], [id |-> 2, isActive |-> TRUE],
    [id |-> 3, isActive |-> FALSE] }

\* The lists island.attributes.widgets.data an island is mounted with.
InitialWidgetLists ==
  { << >>, << 1 >>, << 3 >>, << 1, 2 >>, << 2, 3 >>, << 3, 1, 2 >> }

\* !island.attributes.maxWidgets || widgets.length < island.attributes.maxWidgets
ShowsAddWidget(isl) ==
  isl.maxWidgets = 0 \/ Len(isl.widgets) < isl.maxWidgets

\* widgets.findIndex(widget => widget.id.toString() === id)
FindIndex(list, id) ==
  IF \E i \in DOMAIN list : list[i] = id
  THEN CHOOSE i \in DOMAIN list :
         list[i] = id /\ \A j \in 1..(i - 1) : list[j] # id
  ELSE 0

\* arrayMove(array, from, to): the element at from taken out and put in at to
ArrayMove(list, from, to) ==
  LET without == SubSeq(list, 1, from - 1) \o SubSeq(list, from + 1, Len(list))
  IN  SubSeq(without, 1, to - 1) \o << list[from] >>
        \o SubSeq(without, to, Len(without))

\* A WidgetIsland mounts: useState(island.attributes.widgets.data || [])
MountIsland(editable, maxWidgets, data) ==
  /\ island = NoIsland
  /\ island' = [NoIsland EXCEPT !.mounted = TRUE, !.editable = editable,
                                !.maxWidgets = maxWidgets,
                                !.initialCount = Len(data), !.widgets = data]
  /\ UNCHANGED << registryVars, manifestVars, rendererVars, sibling, validation,
                  updater >>

\* A click on the "Add Widget" button, which is rendered for an editable island
\* below its limit: setIsAddingWidget(true), and the effect calls
\* StrapiAPI.getWidgets.
ClickAddWidget ==
  /\ island.mounted
  /\ island.editable
  /\ ShowsAddWidget(island)
  /\ ~island.isAddingWidget
  /\ island' = [island EXCEPT !.isAddingWidget = TRUE, !.fetching = TRUE]
  /\ UNCHANGED << registryVars, manifestVars, rendererVars, sibling, validation,
                  updater >>

\* StrapiAPI.getWidgets resolves: setAvailableWidgets(allWidgets.filter(...));
\* another call of it may still be out.
GetWidgetsResolves(allWidgets, more) ==
  /\ island.fetching
  /\ island' = [island EXCEPT
                  !.availableWidgets = { w.id : w \in { x \in allWidgets : x.isActive } },
                  !.fetching = more]
  /\ UNCHANGED << registryVars, manifestVars, rendererVars, sibling, validation,
                  updater >>

\* StrapiAPI.getWidgets rejects: the error is logged.
GetWidgetsRejects(more) ==
  /\ island.fetching
  /\ island' = [island EXCEPT !.fetching = more]
  /\ UNCHANGED << registryVars, manifestVars, rendererVars, sibling, validation,
                  updater >>

\* A click on the backdrop or on Cancel of the selection modal.
CloseAddWidget ==
  /\ island.isAddingWidget
  /\ island' = [island EXCEPT !.isAddingWidget = FALSE]
  /\ UNCHANGED << registryVars, manifestVars, rendererVars, sibling, validation,
                  updater >>

\* const newWidgets = [...widgets, widget]; setWidgets(newWidgets)
WidgetsAfterAdd(isl, widget) == Append(isl.widgets, widget)

\* handleWidgetAdd(widget), a click on a widget of the selection modal:
\* setWidgets, then onWidgetAdd, which returns or throws, then
\* setIsAddingWidget(false), which a throw skips; isLoading is set and reset.
HandleWidgetAdd(widget, onWidgetAddThrows) ==
  /\ island.isAddingWidget
  /\ widget \in island.availableWidgets
  /\ Len(island.widgets) <= MaxIslandWidgets
  /\ island' = [island EXCEPT
                  !.widgets = WidgetsAfterAdd(island, widget),
                  !.isAddingWidget = IF onWidgetAddThrows THEN @ ELSE FALSE,
                  !.isLoading = FALSE]
  /\ UNCHANGED << registryVars, manifestVars, rendererVars, sibling, validation,
                  updater >>

\* handleWidgetRemove(widgetId), a click on the remove button of an item:
\* widgets.filter(w => w.id !== widgetId)
HandleWidgetRemove(widgetId) ==
  /\ island.mounted
  /\ island.editable
  /\ FindIndex(island.widgets, widgetId) # 0
  /\ island' = [island EXCEPT
                  !.widgets = SelectSeq(@, LAMBDA w : w # widgetId)]
  /\ UNCHANGED << registryVars, manifestVars, rendererVars, sibling, validation,
                  updater >>

\* handleDragEnd: the item active dropped over the item over
HandleDragEnd(active, over) ==
  /\ island.mounted
  /\ island.editable
  /\ FindIndex(island.widgets, active) # 0
  /\ FindIndex(island.widgets, over) # 0
  /\ active # over
  /\ island' = [island EXCEPT
                  !.widgets = ArrayMove(@, FindIndex(@, active), FindIndex(@, over))]
  /\ UNCHANGED << registryVars, manifestVars, rendererVars, sibling, validation,
                  updater >>

\* --------------------------------------------------- WidgetDependencyUpdater
\* The elements of the array in PACKAGES_TO_UPDATE: two package objects and a
\* JSON null.
PackageA == [isNull |-> FALSE, name |-> <<"a">>, version |-> <<"2">>]
PackageB == [isNull |-> FALSE, name |-> <<"b">>, version |-> <<"1">>]
NullElement == [isNull |-> TRUE, name |-> << >>, version |-> << >>]
Elements == { PackageA, PackageB, NullElement }

RECURSIVE ListsOf(_, _)
ListsOf(elements, n) ==
  IF n = 0 THEN { << >> }
  ELSE LET shorter == ListsOf(elements, n - 1)
       IN  shorter \cup { Append(l, e) : l \in { x \in shorter : Len(x) = n - 1 },
                                        e \in elements }

\* What process.env.PACKAGES_TO_UPDATE holds, by what JSON.parse makes of it:
\* not set (or empty), not JSON, a JSON array, or another JSON value, which is
\* falsy (null, 0, false, "") or one package object.
PackagesEnvs ==
  { [kind |-> "missing"], [kind |-> "unparsable"] }
    \cup { [kind |-> "array", items |-> l] : l \in ListsOf(Elements, MaxPackages) }
    \cup { [kind |-> "falsy"], [kind |-> "object", value |-> PackageA] }

\* getPackagesToUpdate(): "[]" for a variable not set, [] for what does not
\* parse, the array as it is, and any other value wrapped if it is truthy.
GetPackagesToUpdate(packagesEnv) ==
  IF packagesEnv.kind = "missing" THEN << >>
  ELSE IF packagesEnv.kind = "unparsable" THEN << >>
  ELSE IF packagesEnv.kind = "array" THEN packagesEnv.items
  ELSE IF packagesEnv.kind = "object" THEN << packagesEnv.value >>
  ELSE << >>

\* What package.json has under dependencies before the script runs.
DependenciesOnDisk ==
  { [n \in {} |-> << >>], [n \in { <<"a">> } |-> <<"^", "1">>] }

\* deps[name]
Dependency(deps, name) == IF name \in DOMAIN deps THEN deps[name] ELSE Undefined

\* `npm install ${name}@${version} --save`
InstallCommand(pkg) ==
  <<"npm install ">> \o pkg.name \o <<"@">> \o pkg.version \o <<" --save">>

\* What a successful `npm install name@version --save` leaves in package.json.
DependenciesAfterInstall(deps, pkg) ==
  [n \in (DOMAIN deps) \cup {pkg.name} |->
     IF n = pkg.name THEN <<"^">> \o pkg.version ELSE deps[n]]

\* hasPackageChanges(original, current)
HasPackageChanges(original, current) ==
  \/ Cardinality(DOMAIN original) # Cardinality(DOMAIN current)
  \/ \E key \in DOMAIN original : original[key] # Dependency(current, key)

\* generateSummary(originalDeps, currentDeps): this.results.summary
GenerateSummary(results, originalDeps, currentDeps) ==
  LET changed ==
        SelectSeq(results.updatedPackages,
                  LAMBDA pkg : Dependency(originalDeps, pkg.name)
                                 # Dependency(currentDeps, pkg.name))
  IN  [empty |-> FALSE,
       totalPackagesProcessed |->
         Len(results.updatedPackages) + Len(results.errors),
       successfulInstalls |-> Len(results.updatedPackages),
       failedInstalls |-> Len(results.errors),
       actualUpdates |-> Len(changed),
       hasChanges |-> results.hasChanges,
       updatedPackages |->
         [i \in DOMAIN changed |->
            [name |-> changed[i].name,
             action |-> IF Dependency(originalDeps, changed[i].name) # Undefined
                        THEN "updated" ELSE "added"]]]

\* outputResults() reads this.results.summary.updatedPackages.length after it
\* has written the outputs: a TypeError when summary is still {}.
OutputResultsThrows(results) == results.summary.empty

\* outputResults(), as far as it gets: the four outputs written.
OutputResults(u) ==
  [u EXCEPT !.outputs =
     Append(@, [hasChanges |-> u.results.hasChanges,
                updatedPackages |-> u.results.updatedPackages,
                errors |-> u.results.errors,
                summary |-> u.results.summary])]

\* The catch of run(): the fatal error recorded, outputResults, process.exit(1);
\* when outputResults throws there, run() rejects and the caller's catch exits
\* with 1.
Fatal(u, message) ==
  LET recorded == [u EXCEPT !.results.errors =
                     Append(@, [type |-> "fatal", package |-> << >>,
                                version |-> << >>, message |-> message])]
  IN  [OutputResults(recorded) EXCEPT
         !.pc = "done", !.exitCode = 1,
         !.rejected = OutputResultsThrows(recorded.results)]

\* The message of the TypeError outputResults throws on an empty summary.
SummaryTypeError == <<"Cannot read properties of undefined (reading 'length')">>

\* Mutant: a failed install leaves no trace.
ErrorsAfterFailureDropped(errors, pkg) == errors

\* The catch of installPackage: this.results.errors.push(errorInfo)
ErrorsAfterFailure(errors, pkg) ==
  Append(errors, [type |-> "install", package |-> pkg.name,
                  version |-> pkg.version,
                  message |-> <<"Command failed: ">> \o InstallCommand(pkg)])

\* run() from its start to the install loop: configureNpmAuth, which throws if
\* an npm config command fails, getPackagesToUpdate, the early return for no
\* packages, and the first readPackageJson.
Run(npmAuth, packagesEnv, forceUpdate, onDisk, readable) ==
  /\ updater.pc = "idle"
  /\ LET started == [updater EXCEPT !.npmAuth = npmAuth,
                                    !.packagesEnv = packagesEnv,
                                    !.forceUpdate = forceUpdate,
                                    !.dependencies = onDisk]
         packagesToUpdate == GetPackagesToUpdate(packagesEnv)
     IN  updater' =
           IF npmAuth = "fails"
           THEN Fatal(started, <<"Command failed: npm config set">>)
           ELSE IF Len(packagesToUpdate) = 0
           THEN IF OutputResultsThrows(started.results)
                THEN Fatal(OutputResults(started), SummaryTypeError)
                ELSE [OutputResults(started) EXCEPT !.pc = "done"]
           ELSE IF ~readable
           THEN Fatal(started, <<"Failed to read package.json">>)
           ELSE [started EXCEPT !.pc = "installing",
                                !.packages = packagesToUpdate,
                                !.index = 1,
                                !.originalDependencies = onDisk]
  /\ UNCHANGED << registryVars, manifestVars, rendererVars, sibling, validation,
                  island >>

\* await this.installPackage(pkg) for the next package of the loop: execSync
\* succeeds or throws; destructuring a null element throws outside the try of
\* installPackage, into the catch of run().
InstallPackage(succeeds) ==
  /\ updater.pc = "installing"
  /\ updater.index <= Len(updater.packages)
  /\ LET pkg == updater.packages[updater.index] IN
     updater' =
       IF pkg.isNull
       THEN Fatal(updater, <<"Cannot destructure property 'name' of 'pkg'">>)
       ELSE IF succeeds
       THEN [updater EXCEPT
               !.results.updatedPackages =
                  Append(@, [name |-> pkg.name, version |-> pkg.version,
                             action |-> "installed"]),
               !.dependencies = DependenciesAfterInstall(@, pkg),
               !.index = @ + 1]
       ELSE [updater EXCEPT
               !.results.errors = ErrorsAfterFailure(@, pkg),
               !.index = @ + 1]
  /\ UNCHANGED << registryVars, manifestVars, rendererVars, sibling, validation,
                  island >>

\* run() after its loop: the second readPackageJson, hasChanges,
\* generateSummary, outputResults.
RunCompletes(readable) ==
  /\ updater.pc = "installing"
  /\ updater.index > Len(updater.packages)
  /\ updater' =
       IF ~readable THEN Fatal(updater, <<"Failed to read package.json">>)
       ELSE LET hasChanges == HasPackageChanges(updater.originalDependencies,
                                                updater.dependencies)
                changed == [updater EXCEPT
                              !.results.hasChanges =
                                 hasChanges \/ updater.forceUpdate]
                summed == [changed EXCEPT
                             !.results.summary =
                                GenerateSummary(changed.results,
                                                updater.originalDependencies,
                                                updater.dependencies)]
            IN  IF OutputResultsThrows(summed.results)
                THEN Fatal(OutputResults(summed), SummaryTypeError)
                ELSE [OutputResults(summed) EXCEPT !.pc = "done"]
  /\ UNCHANGED << registryVars, manifestVars, rendererVars, sibling, validation,
                  island >>

\* ------------------------------------------------------------ specification
Load == \E q \in Requests : LoadWidget(q.packageName, q.version)
ImportOk == \E rid \in 1..MaxCalls : ImportSucceeds(rid)
ImportKo == \E rid \in 1..MaxCalls : ImportFails(rid)
OnLoad == \E rid \in 1..MaxCalls, g \in BOOLEAN : ScriptOnLoad(rid, g)
OnError == \E rid \in 1..MaxCalls : ScriptOnError(rid)
Preload == \E list \in PreloadLists : PreloadWidgets(list)
ProbeGet == \E q \in Requests : GetWidget(q.packageName, q.version)
ProbeLoaded == \E q \in Requests : IsWidgetLoaded(q.packageName, q.version)

Resolve ==
  \/ ImportOk
  \/ ImportKo
  \/ OnLoad
  \/ OnError

Probe ==
  \/ ProbeGet
  \/ ProbeLoaded

Next ==
  \/ Load
  \/ Preload
  \/ Resolve
  \/ ClearCache
  \/ Probe

Spec == Init /\ [][Next]_vars

\* The registry used without clearCache.
NextNoClear ==
  \/ Load
  \/ Preload
  \/ Resolve
  \/ Probe

SpecNoClear == Init /\ [][NextNoClear]_vars

\* The cache and its probes: every loadWidget call made directly.
NextCache ==
  \/ Load
  \/ Resolve
  \/ ClearCache
  \/ Probe

SpecCache == Init /\ [][NextCache]_vars

\* The registry with its cache listed by getLoadedWidgets.
NextLoaded ==
  \/ Load
  \/ Resolve
  \/ ClearCache
  \/ GetLoadedWidgets

SpecLoaded == Init /\ [][NextLoaded]_vars

\* Every loadWidget call made through preloadWidgets.
NextPreload ==
  \/ Preload
  \/ Resolve
  \/ ClearCache

SpecPreload == Init /\ [][NextPreload]_vars

\* The package names whose CDN global is read: the two of the documentation and
\* names with the other characters a package name may hold.
HeroBannerPackage ==
  <<"@", "w", "i", "d", "g", "e", "t", "-", "l", "i", "b", "r", "a", "r", "y",
    "/", "h", "e", "r", "o", "-", "b", "a", "n", "n", "e", "r">>

SimpleWidgetPackage ==
  <<"s", "i", "m", "p", "l", "e", "-", "w", "i", "d", "g", "e", "t">>

NamedPackages ==
  { HeroBannerPackage,
    SimpleWidgetPackage,
    <<"m", "y", ".", "w", "i", "d", "g", "e", "t">>,
    <<"m", "y", "_", "w", "2">> }

LoadNamed == \E p \in NamedPackages : LoadWidget(p, Undefined)

\* The CDN fallback on its own: every import fails or succeeds, every script
\* loads or fails.
NextGlobalName ==
  \/ LoadNamed
  \/ Resolve

SpecGlobalName == Init /\ [][NextGlobalName]_vars

\* One package asked for without a version and with a fixed one.
VersionRequests ==
  { [packageName |-> <<"w">>, version |-> Undefined],
    [packageName |-> <<"w">>, version |-> <<"1">>] }

LoadVersion == \E q \in VersionRequests : LoadWidget(q.packageName, q.version)
ProbeGetVersion == \E q \in VersionRequests : GetWidget(q.packageName, q.version)
ProbeLoadedVersion ==
  \E q \in VersionRequests : IsWidgetLoaded(q.packageName, q.version)

NextVersions ==
  \/ LoadVersion
  \/ Resolve
  \/ ClearCache
  \/ ProbeGetVersion
  \/ ProbeLoadedVersion

SpecVersions == Init /\ [][NextVersions]_vars

\* WidgetMetadata on its own: loadManifest called by the host.
ManifestLoad == \E q \in Requests : LoadManifest(q.packageName, q.version)
FetchKo == \E n \in 1..MaxManifestLoads : FetchRejects(n)
FetchResponse == \E n \in 1..MaxManifestLoads, ok \in BOOLEAN : FetchResponds(n, ok)
JsonOk ==
  \E n \in 1..MaxManifestLoads, packageJson \in PackageJsons :
    JsonResolves(n, packageJson)
JsonKo == \E n \in 1..MaxManifestLoads : JsonRejects(n)

Fetch ==
  \/ FetchKo
  \/ FetchResponse
  \/ JsonOk
  \/ JsonKo

NextManifest ==
  \/ ManifestLoad
  \/ Fetch
  \/ ClearManifestCache

SpecManifest == Init /\ [][NextManifest]_vars

\* One WidgetRenderer on a page, with the registry and the manifest cache
\* behind it.
MountWidget ==
  \E q \in Requests, c \in Configurations : Mount(q.packageName, q.version, c)
RerenderWidget == \E c \in Configurations : Rerender(c)
WidgetFault == \E m \in ErrorMessages : WidgetOnError(m)
BrowserFault == \E m \in ErrorMessages : WindowErrorEvent(m)
RenderFault == \E m \in ErrorMessages : WidgetRenderThrows(m)

NextRenderer ==
  \/ MountWidget
  \/ RerenderWidget
  \/ Retry
  \/ Fetch
  \/ Resolve
  \/ WidgetFault
  \/ BrowserFault
  \/ RenderFault

SpecRenderer == Init /\ [][NextRenderer]_vars

\* The default configurations of a widget (widget.attributes.configuration) and
\* the configurations a caller passes for it, values included: "title" is in
\* both, "count" only in the default, "theme" only in the caller's.
DefaultConfigurations ==
  { << >>,
    << [name |-> <<"title">>, type |-> StringType, value |-> <<"Default">>],
       [name |-> <<"count">>, type |-> NumberType, value |-> <<"1">>] >> }

CallerConfigurations ==
  { << >>,
    << [name |-> <<"theme">>, type |-> StringType, value |-> <<"dark">>],
       [name |-> <<"title">>, type |-> StringType, value |-> <<"Custom">>] >> }

MountConfigured ==
  \E q \in Requests, d \in DefaultConfigurations, c \in CallerConfigurations :
    MountWith(q.packageName, q.version, d, c, FALSE)
RerenderConfigured == \E c \in CallerConfigurations : Rerender(c)

\* One WidgetRenderer whose widget has a default configuration and whose caller
\* changes the configuration it passes.
NextProps ==
  \/ MountConfigured
  \/ RerenderConfigured
  \/ Fetch
  \/ Resolve

SpecProps == Init /\ [][NextProps]_vars

\* The prop names of the manifests and configurations validateProps is called
\* with: two ordinary ones and one every object inherits.
PropNames == { <<"title">>, <<"count">>, <<"toString">> }

\* The declared types: lower case, capitalized, "any", and none.
DeclaredTypes ==
  { StringType, <<"S", "t", "r", "i", "n", "g">>, NumberType, AnyType, << >> }

PropConfigs ==
  { [name |-> n, type |-> t, required |-> r] :
      n \in PropNames, t \in DeclaredTypes, r \in BOOLEAN }

\* manifest.props: up to MaxProps declared props of different names
DeclaredProps ==
  { d \in UNION { [1..n -> PropConfigs] : n \in 0..MaxProps } :
      \A i, j \in DOMAIN d : i # j => d[i].name # d[j].name }

\* The manifests: one without a props schema and one for every schema.
Manifests ==
  { [null |-> FALSE, props |-> Undefined] }
    \cup { [null |-> FALSE, props |-> d] : d \in DeclaredProps \ { << >> } }

\* The configurations: "title" and "count", each left out, a string or a number.
ValidatedConfigurations ==
  LET Values(n) == { << >> } \cup
                     { << [name |-> n, type |-> t] >> : t \in {StringType, NumberType} }
  IN  { a \o b : a \in Values(<<"title">>), b \in Values(<<"count">>) }

\* validateProps on its own: a configuration and a manifest are drawn, then
\* validateProps is called on them.
InitValidator ==
  /\ widgets = EmptyMap
  /\ loadingPromises = EmptyMap
  /\ resolutions = << >>
  /\ calls = << >>
  /\ preloads = {}
  /\ head = {}
  /\ probe = NoProbe
  /\ cleared = {}
  /\ manifestCache = EmptyMap
  /\ manifestLoads = << >>
  /\ instance = NoInstance
  /\ attempts = << >>
  /\ reported = {}
  /\ hostFaults = {}
  /\ sibling = NoSibling
  /\ validation \in { [NoValidation EXCEPT !.props = c, !.manifest = m] :
                         c \in ValidatedConfigurations, m \in Manifests }
  /\ island = NoIsland
  /\ updater = NoUpdater

NextValidator == ValidatePropsCall

SpecValidator == InitValidator /\ [][NextValidator]_vars

MountUnchanged ==
  \E q \in Requests, c \in Configurations, omitted \in BOOLEAN :
    MountWith(q.packageName, q.version, << >>, c, omitted)

\* One WidgetRenderer whose caller never renders it with other props; the
\* configuration prop is passed or left out.
NextUnchangedProps ==
  \/ MountUnchanged
  \/ DefaultConfigurationEffect
  \/ Retry
  \/ Fetch
  \/ Resolve

SpecUnchangedProps == Init /\ [][NextUnchangedProps]_vars

SiblingPackage == <<"o">>

MountSibling == ShowSibling(SiblingPackage, Undefined)
RuntimeFault ==
  \E source \in {"instance", "sibling"}, m \in ErrorMessages : UncaughtIn(source, m)

\* Two WidgetRenderers on one page and the runtime faults of their widgets.
NextPage ==
  \/ MountWidget
  \/ MountSibling
  \/ Retry
  \/ Fetch
  \/ Resolve
  \/ RuntimeFault

SpecPage == Init /\ [][NextPage]_vars

WidgetIds == { w.id : w \in ServerWidgets }

IslandMounts ==
  \E editable \in BOOLEAN, maxWidgets \in 0..MaxIslandWidgets,
     data \in InitialWidgetLists :
    MountIsland(editable, maxWidgets, data)
AvailableArrive ==
  \E allWidgets \in {ServerWidgets, {}}, more \in BOOLEAN :
    GetWidgetsResolves(allWidgets, more)
AvailableFail == \E more \in BOOLEAN : GetWidgetsRejects(more)
WidgetAdded ==
  \E widget \in WidgetIds, throws \in BOOLEAN : HandleWidgetAdd(widget, throws)
WidgetRemoved == \E widgetId \in WidgetIds : HandleWidgetRemove(widgetId)
WidgetDragged == \E active, over \in WidgetIds : HandleDragEnd(active, over)

\* One WidgetIsland and what its user does with it.
NextIsland ==
  \/ IslandMounts
  \/ ClickAddWidget
  \/ AvailableArrive
  \/ AvailableFail
  \/ CloseAddWidget
  \/ WidgetAdded
  \/ WidgetRemoved
  \/ WidgetDragged

SpecIsland == Init /\ [][NextIsland]_vars

ScriptRuns ==
  \E npmAuth \in {"none", "ok", "fails"}, packagesEnv \in PackagesEnvs,
     forceUpdate \in BOOLEAN, onDisk \in DependenciesOnDisk, readable \in BOOLEAN :
    Run(npmAuth, packagesEnv, forceUpdate, onDisk, readable)
Installs == \E succeeds \in BOOLEAN : InstallPackage(succeeds)
ScriptEnds == \E readable \in BOOLEAN : RunCompletes(readable)

\* One run of the update-widget-dependencies script.
NextUpdater ==
  \/ ScriptRuns
  \/ Installs
  \/ ScriptEnds

SpecUpdater == Init /\ [][NextUpdater]_vars

\* ------------------------------------------------------------------ claims
\* The resolutions for cache key k that have not settled.
Unsettled(k) ==
  { rid \in DOMAIN resolutions :
      resolutions[rid].key = k /\ ~Settled(resolutions[rid]) }

\* The resolutions that settle in this step.
SettlesNow(rid) ==
  /\ rid \in DOMAIN resolutions
  /\ ~Settled(resolutions[rid])
  /\ Settled(resolutions'[rid])

\* The loadWidget calls made in this step.
NewCalls == (Len(calls) + 1)..Len(calls')

\* The resolutions started in this step.
NewResolutions == (Len(resolutions) + 1)..Len(resolutions')

\* The last resolution started for cache key k, 0 when there is none.
LastResolution(k) ==
  LET of == { rid \in DOMAIN resolutions : resolutions[rid].key = k }
  IN  IF of = {} THEN 0 ELSE CHOOSE rid \in of : \A other \in of : other <= rid

\* C1: without clearCache, the loadWidget calls for a key made while a
\* resolution of that key is unsettled all wait for that one resolution: a key
\* has at most one unsettled resolution, every resolution was started by exactly
\* one call, every pending call waits for the unsettled resolution of its key,
\* and the calls that wait for the same resolution see the same outcome, which is
\* the outcome of that resolution.
C1_ConcurrentLoadsShareOneResolution ==
  /\ \A k \in CacheKeys : Cardinality(Unsettled(k)) <= 1
  /\ \A rid \in DOMAIN resolutions :
       Cardinality({ i \in DOMAIN calls :
                       calls[i].promise = rid /\ calls[i].owner }) = 1
  /\ \A i \in DOMAIN calls :
       calls[i].promise # 0 =>
         /\ calls[i].promise \in DOMAIN resolutions
         /\ resolutions[calls[i].promise].key = calls[i].key
         /\ calls[i].state = resolutions[calls[i].promise].state
         /\ calls[i].value = resolutions[calls[i].promise].value
         /\ calls[i].message = resolutions[calls[i].promise].message
  /\ \A i \in DOMAIN calls :
       calls[i].state = "pending" => calls[i].promise \in Unsettled(calls[i].key)

\* Two calls have waited for the same resolution and both saw it fail.
C1_Witness ==
  \E i, j \in DOMAIN calls :
    /\ i # j
    /\ calls[i].promise # 0
    /\ calls[i].promise = calls[j].promise
    /\ calls[i].state = "rejected"
    /\ calls[j].state = "rejected"
    /\ Cardinality({ rid \in DOMAIN resolutions :
                       resolutions[rid].key = calls[i].key }) = 1

\* C2: under any interleaving of loadWidget, clearCache and settlements, a cache
\* key has at most one unsettled resolution.
C2_AtMostOneUnsettledPerKey ==
  \A k \in CacheKeys : Cardinality(Unsettled(k)) <= 1

\* C3: a resolution that was in flight when clearCache ran does not store its
\* result when it settles successfully: a key without a terminal entry still has
\* none afterwards.
C3_ClearedResolutionStoresNothing ==
  [][\A rid \in DOMAIN resolutions :
       ( /\ SettlesNow(rid)
         /\ resolutions[rid].stale
         /\ resolutions'[rid].state = "fulfilled"
         /\ resolutions[rid].key \notin DOMAIN widgets )
       => resolutions[rid].key \notin DOMAIN widgets']_vars

\* C4: without clearCache, when a resolution rejects its key is afterwards in
\* neither the terminal cache nor the in-flight map, and the first loadWidget for
\* a key whose last resolution rejected starts a new resolution, at its import.
C4_FailedLoadIsNotCached ==
  [][/\ \A rid \in DOMAIN resolutions :
          (SettlesNow(rid) /\ resolutions'[rid].state = "rejected") =>
            /\ resolutions[rid].key \notin DOMAIN widgets'
            /\ resolutions[rid].key \notin DOMAIN loadingPromises'
     /\ \A i \in NewCalls :
          LET k == calls'[i].key
              last == LastResolution(k)
          IN  ( /\ last # 0
                /\ resolutions[last].state = "rejected"
                /\ \A j \in NewCalls : j < i => calls'[j].key # k )
              => /\ calls'[i].owner
                 /\ calls'[i].promise \in NewResolutions
                 /\ resolutions'[calls'[i].promise].key = k
                 /\ resolutions'[calls'[i].promise].stage = "import"
                 /\ calls'[i].state = "pending"]_vars

\* A key whose first resolution rejected was loaded by a second one.
C4_Witness ==
  \E r1, r2 \in DOMAIN resolutions :
    /\ r1 < r2
    /\ resolutions[r1].key = resolutions[r2].key
    /\ resolutions[r1].state = "rejected"
    /\ resolutions[r2].state = "fulfilled"
    /\ resolutions[r2].key \in DOMAIN widgets

\* C5: the first loadWidget for a key after a clearCache starts a resolution.
C5_LoadAfterClearResolvesAgain ==
  \A i \in DOMAIN calls : calls[i].afterClear => calls[i].owner

\* C6: a loadWidget for a key that has a terminal entry returns the stored
\* component and starts nothing: no resolution for the key, no script element, no
\* change of the terminal cache or of the key's in-flight entry.
C6_CachedLoadStartsNothing ==
  [][\A i \in NewCalls :
       LET k == calls'[i].key IN
       k \in DOMAIN widgets =>
         /\ calls'[i].state = "fulfilled"
         /\ calls'[i].value = widgets[k]
         /\ ~calls'[i].owner
         /\ calls'[i].promise = 0
         /\ \A rid \in NewResolutions : resolutions'[rid].key # k
         /\ k \in DOMAIN widgets' /\ widgets'[k] = widgets[k]
         /\ (k \in DOMAIN loadingPromises') = (k \in DOMAIN loadingPromises)
         /\ head' = head]_vars

\* A call for a key a resolution had loaded was answered from the terminal cache.
C6_Witness ==
  \E i \in DOMAIN calls :
    /\ calls[i].promise = 0
    /\ calls[i].state = "fulfilled"
    /\ calls[i].key \in DOMAIN widgets
    /\ calls[i].value = widgets[calls[i].key]
    /\ \E rid \in DOMAIN resolutions :
         resolutions[rid].key = calls[i].key /\ resolutions[rid].state = "fulfilled"

\* C7: a preloadWidgets promise never rejects; it has one loadWidget call per
\* entry, for that entry's key; each of these calls has the outcome of the
\* resolution it waits for, whatever the other entries do; and the promise is
\* fulfilled exactly when all of these calls have settled.
C7_PreloadSettlesWithItsLoads ==
  \A p \in preloads :
    /\ p.state \in {"pending", "fulfilled"}
    /\ Len(p.items) = Len(p.list)
    /\ \A j \in DOMAIN p.items :
         /\ p.items[j] \in DOMAIN calls
         /\ calls[p.items[j]].key = CacheKey(p.list[j].packageName, p.list[j].version)
         /\ calls[p.items[j]].promise # 0 =>
              calls[p.items[j]].state = resolutions[calls[p.items[j]].promise].state
    /\ (p.state = "fulfilled") <=>
         (\A j \in DOMAIN p.items : calls[p.items[j]].state # "pending")

\* A preload of two entries is complete, one entry loaded and the other failed.
C7_Witness ==
  \E p \in preloads :
    /\ p.state = "fulfilled"
    /\ \E j1, j2 \in DOMAIN p.items :
         /\ calls[p.items[j1]].state = "rejected"
         /\ calls[p.items[j2]].state = "fulfilled"

\* C8: getWidget and isWidgetLoaded change nothing of the registry and start
\* nothing; isWidgetLoaded answers whether the key has a terminal entry and
\* getWidget answers that entry or undefined, so a key that is only in flight is
\* reported as not loaded.
C8_ProbesAreReadOnly ==
  [][probe'.op # "none" =>
       /\ UNCHANGED << widgets, loadingPromises, resolutions, calls, preloads, head >>
       /\ probe'.op = "isWidgetLoaded" =>
            probe'.result = (probe'.key \in DOMAIN widgets)
       /\ probe'.op = "getWidget" =>
            probe'.result = IF probe'.key \in DOMAIN widgets
                            THEN widgets[probe'.key] ELSE Undefined]_vars

\* isWidgetLoaded was asked about a key in flight and answered false.
C8_Witness ==
  /\ probe.op = "isWidgetLoaded"
  /\ probe.inFlight
  /\ probe.key \notin DOMAIN widgets
  /\ probe.result = FALSE

\* C9: a script element is attached to document.head only while its resolution
\* waits for the element's load or error event.
C9_ScriptRemovedAfterEvent ==
  \A rid \in head : resolutions[rid].stage = "cdn"

\* C10: a loadWidget call that failed because the CDN script failed to load
\* is rejected with a message that contains the CDN URL.
C10_CdnFailureNamesUrl ==
  \A i \in DOMAIN calls :
    ( /\ calls[i].state = "rejected"
      /\ calls[i].promise # 0
      /\ resolutions[calls[i].promise].cause
           = CdnFailedMessage(ScriptSrc(calls[i].promise)) )
    => Includes(calls[i].message, ScriptSrc(calls[i].promise))

\* C11: the global name read after a CDN load is the package name with every
\* non-alphanumeric character replaced by a space, the first letter of each word
\* capitalized and the words concatenated; "@widget-library/hero-banner" gives
\* "WidgetLibraryHeroBanner" and "simple-widget" gives "SimpleWidget".
C11_GlobalNameFromAlphanumericWords ==
  LET Digits == {"0", "1", "2", "3", "4", "5", "6", "7", "8", "9"}
      Letters == { LowerCase[i] : i \in DOMAIN LowerCase }
                   \cup { UpperCase[i] : i \in DOMAIN UpperCase }
      Spaced(p) == [i \in DOMAIN p |->
                      IF p[i] \in Digits \cup Letters THEN p[i] ELSE " "]
      Words(p) == SplitOnSpace(Spaced(p))
      Expected(p) == JoinWords([i \in DOMAIN Words(p) |-> Capitalize(Words(p)[i])])
      HeroBanner == <<"W", "i", "d", "g", "e", "t", "L", "i", "b", "r", "a", "r",
                      "y", "H", "e", "r", "o", "B", "a", "n", "n", "e", "r">>
      SimpleWidget == <<"S", "i", "m", "p", "l", "e", "W", "i", "d", "g", "e", "t">>
  IN  \A rid \in DOMAIN resolutions :
        LET r == resolutions[rid] IN
        (r.state = "fulfilled" /\ r.value[1] = "global") =>
          /\ r.value[2] = Expected(r.packageName)
          /\ r.packageName = HeroBannerPackage => r.value[2] = HeroBanner
          /\ r.packageName = SimpleWidgetPackage => r.value[2] = SimpleWidget

\* C12: a request without a version is keyed as "latest", and that key is a
\* partition of its own: isWidgetLoaded(name, v) answers true, getWidget(name, v)
\* answers a component and loadWidget(name, v) is answered from the cache only
\* when a resolution of that very name and version has loaded, and a loadWidget
\* that waits for a resolution waits for one of its own name and version; v is
\* either left out (then the version is "latest") or fixed.
C12_LatestIsItsOwnPartition ==
  [][\A q \in VersionRequests :
       LET name == q.packageName
           asked == IF q.version = Undefined THEN <<"latest">> ELSE q.version
           Same(r) == r.packageName = name /\ r.versionString = asked
           Loaded == { rid \in DOMAIN resolutions :
                         Same(resolutions[rid]) /\ resolutions[rid].state = "fulfilled" }
       IN
       /\ (IsWidgetLoaded(name, q.version) /\ probe'.result = TRUE) => Loaded # {}
       /\ (GetWidget(name, q.version) /\ probe'.result # Undefined) =>
            \E rid \in Loaded : resolutions[rid].value = probe'.result
       /\ LoadWidget(name, q.version) =>
            \A i \in NewCalls :
              /\ calls'[i].key = name \o <<"@">> \o asked
              /\ calls'[i].promise = 0 =>
                   \E rid \in Loaded : resolutions[rid].value = calls'[i].value
              /\ calls'[i].promise # 0 => Same(resolutions'[calls'[i].promise])]_vars

\* The package is loaded without a version, and isWidgetLoaded for its fixed
\* version has just answered false.
C12_Witness ==
  /\ probe.op = "isWidgetLoaded"
  /\ probe.key = <<"w", "@", "1">>
  /\ probe.result = FALSE
  /\ <<"w", "@", "latest">> \in DOMAIN widgets
  /\ \E rid \in DOMAIN resolutions :
       resolutions[rid].versionString = <<"latest">> /\ resolutions[rid].state = "fulfilled"

\* The loadManifest calls made in this step.
NewManifestLoads == (Len(manifestLoads) + 1)..Len(manifestLoads')

\* C13: a loadManifest promise is never rejected; when its fetch rejects, when
\* the response is not ok and when the body does not parse, it is fulfilled
\* with null and the cache is left as it was; and a loadManifest call for a key
\* whose calls so far have all returned null, at least one of them, starts a
\* fetch.
C13_ManifestFailureIsNullAndUncached ==
  [][/\ \A n \in DOMAIN manifestLoads' : manifestLoads'[n].state # "rejected"
     /\ \A n \in DOMAIN manifestLoads :
          (FetchRejects(n) \/ FetchResponds(n, FALSE) \/ JsonRejects(n)) =>
            /\ manifestLoads'[n].state = "fulfilled"
            /\ manifestLoads'[n].result = NullManifest
            /\ manifestCache' = manifestCache
     /\ \A n \in NewManifestLoads :
          ( /\ manifestLoads'[n].afterFailure
            /\ \A m \in DOMAIN manifestLoads :
                 (manifestLoads[m].key = manifestLoads'[n].key
                    /\ manifestLoads[m].state = "fulfilled")
                 => manifestLoads[m].result.null )
          => /\ manifestLoads'[n].fetched
             /\ manifestLoads'[n].stage = "fetch"
             /\ manifestLoads'[n].state = "pending"]_vars

\* A loadManifest call made after one for its key had returned null has fetched
\* and returned a manifest.
C13_Witness ==
  \E n \in DOMAIN manifestLoads :
    /\ manifestLoads[n].afterFailure
    /\ manifestLoads[n].fetched
    /\ manifestLoads[n].state = "fulfilled"
    /\ ~manifestLoads[n].result.null
    /\ \E m \in 1..(n - 1) :
         /\ manifestLoads[m].key = manifestLoads[n].key
         /\ manifestLoads[m].result.null
         /\ manifestLoads[m].state = "fulfilled"

\* C14: once a key has a cached manifest, every loadManifest call for the key
\* returns that manifest without a fetch until WidgetMetadata.clearCache(): a call
\* for a cached key returns the cached manifest and fetches nothing, and the
\* manifest cached for a key is replaced by nothing but clearCache.
C14_ManifestCachedUntilClear ==
  [][/\ \A n \in NewManifestLoads :
          manifestLoads'[n].key \in DOMAIN manifestCache =>
            /\ ~manifestLoads'[n].fetched
            /\ manifestLoads'[n].state = "fulfilled"
            /\ manifestLoads'[n].result = manifestCache[manifestLoads'[n].key]
     /\ \A k \in DOMAIN manifestCache :
          \/ manifestCache' = EmptyMap
          \/ k \in DOMAIN manifestCache' /\ manifestCache'[k] = manifestCache[k]]_vars

\* The stage attempt a was at before this step; an attempt made in this step
\* starts before its manifest.
StageBefore(a) == IF a \in DOMAIN attempts THEN attempts[a].stage ELSE "manifest"

\* Whether the configuration of attempt t fails against a manifest that is there
\* and declares props.
FailsAgainst(t, manifest) ==
  /\ ~manifest.null
  /\ manifest.props # Undefined
  /\ ~ValidateProps(t.configuration, manifest).isValid

\* An error is on display: the error panel or the panel of the boundary.
ErrorDisplayed(inst) ==
  /\ inst.mounted
  /\ \/ Branch(inst.widgetState) = "error"
     \/ HasBoundary(inst.widgetState) /\ inst.hasError

\* C15: a WidgetRenderer is loading when it mounts; whenever it is mounted it is
\* in exactly one of loading (the loading flag), error (not loading, an error
\* stored) and loaded (not loading, no error, a component stored), so that the
\* "Unknown widget state" branch is never rendered; and it leaves loading only to
\* loaded or to error.
C15_LoadingThenLoadedOrError ==
  [][instance'.mounted =>
       LET ws == instance'.widgetState
           isLoading == ws.loading
           isError == ~ws.loading /\ ~ws.error.null
           isLoaded == ~ws.loading /\ ws.error.null /\ ws.component # Null
       IN  /\ Cardinality({ b \in {"loading", "error", "loaded"} :
                              \/ b = "loading" /\ isLoading
                              \/ b = "error" /\ isError
                              \/ b = "loaded" /\ isLoaded }) = 1
           /\ Branch(ws) # "unknown"
           /\ ~instance.mounted => isLoading
           /\ (instance.mounted /\ instance.widgetState.loading /\ ~isLoading) =>
                (isLoaded \/ isError)]_vars

\* The instance is loaded by its second attempt, after its first one ended in
\* error.
C15_Witness ==
  /\ instance.mounted
  /\ Branch(instance.widgetState) = "loaded"
  /\ Len(attempts) = 2
  /\ attempts[1].outcome = "error"
  /\ attempts[2].outcome = "loaded"

\* C16: when the manifest an attempt waited for is there, declares props and the
\* attempt's configuration fails against it, the attempt ends in that step with
\* the instance in error, showing the attempt's "Invalid configuration" error,
\* and widgetRegistry.loadWidget is not called: no call, no resolution, no script
\* element.
C16_InvalidConfigurationSkipsModuleLoad ==
  [][\A a \in DOMAIN attempts' :
       LET t == attempts'[a]
           load == manifestLoads'[t.manifestLoad]
       IN  ( /\ StageBefore(a) = "manifest"
             /\ load.state = "fulfilled"
             /\ FailsAgainst(t, load.result) )
           => /\ t.stage = "done"
              /\ t.outcome = "error"
              /\ t.call = 0
              /\ calls' = calls
              /\ resolutions' = resolutions
              /\ loadingPromises' = loadingPromises
              /\ head' = head
              /\ t.error.message =
                   InvalidConfigurationMessage(
                     ValidateProps(t.configuration, load.result).errors)
              /\ instance'.mounted =>
                   /\ Branch(instance'.widgetState) = "error"
                   /\ instance'.widgetState.error = t.error]_vars

\* An attempt has ended on an invalid configuration without a registry call, and
\* the instance shows its error.
C16_Witness ==
  \E a \in DOMAIN attempts :
    /\ attempts[a].outcome = "error"
    /\ attempts[a].call = 0
    /\ FailsAgainst(attempts[a], manifestLoads[attempts[a].manifestLoad].result)
    /\ instance.mounted
    /\ Branch(instance.widgetState) = "error"
    /\ instance.widgetState.error = attempts[a].error
    /\ calls = << >>
    /\ head = {}

\* C17: when loadManifest returns null to an attempt, whatever its
\* configuration, the attempt calls widgetRegistry.loadWidget for its package and
\* version in that step and does not end in error there; and an attempt that has
\* ended in error with a null manifest has had its registry call rejected.
C17_NullManifestProceedsToModule ==
  [][\A a \in DOMAIN attempts' :
       LET t == attempts'[a]
           load == manifestLoads'[t.manifestLoad]
       IN  /\ ( /\ StageBefore(a) = "manifest"
                /\ load.state = "fulfilled"
                /\ load.result.null )
              => /\ t.stage \in {"module", "done"}
                 /\ t.outcome # "error"
                 /\ t.call \in DOMAIN calls'
                 /\ t.call \notin DOMAIN calls
                 /\ calls'[t.call].key = CacheKey(t.packageName, t.version)
           /\ (t.outcome = "error" /\ load.result.null)
              => /\ t.call \in DOMAIN calls'
                 /\ calls'[t.call].state = "rejected"]_vars

\* An attempt whose configuration lacks the declared prop got no manifest and has
\* loaded the widget.
C17_Witness ==
  \E a \in DOMAIN attempts :
    /\ attempts[a].configuration = << >>
    /\ manifestLoads[attempts[a].manifestLoad].state = "fulfilled"
    /\ manifestLoads[attempts[a].manifestLoad].result.null
    /\ attempts[a].outcome = "loaded"
    /\ instance.mounted
    /\ Branch(instance.widgetState) = "loaded"

\* C18: a fault of the mounted widget, an exception thrown while it renders or
\* an error event of the browser, does not leave the WidgetRenderer for the
\* hosting page: the WidgetRenderer stays mounted, an error is on display and the
\* caller's onError has been called with an error for the fault.
C18_WidgetFaultsStayInside ==
  [][\A m \in ErrorMessages :
       (WidgetRenderThrows(m) \/ WindowErrorEvent(m)) =>
         /\ hostFaults' = hostFaults
         /\ ErrorDisplayed(instance')
         /\ \E r \in reported' : r.underlying = m]_vars

C20_ReportedErrorsCarryTheWidget ==
  [][/\ \A r \in reported' :
          /\ ~r.error.null
          /\ r.error.packageName = instance'.packageName
          /\ r.error.version = instance'.version
          /\ r.underlying # << >> => r.error.originalError = r.underlying
     /\ \A a \in DOMAIN attempts' :
          (attempts'[a].outcome = "error" /\ StageBefore(a) # "done") =>
            \E r \in reported' : r.error = attempts'[a].error
     /\ \A m \in ErrorMessages :
          (WidgetOnError(m) \/ WindowErrorEvent(m)) =>
            \E r \in reported' : r.underlying = m]_vars

\* The attempts that succeed in this step.
SucceedsNow ==
  { a \in DOMAIN attempts' :
      StageBefore(a) # "done" /\ attempts'[a].outcome = "loaded" }

KeysOf(o) == { o[i].name : i \in DOMAIN o }

\* C22: the configuration the mounted widget is given is the merge of the
\* widget's default configuration and the caller's configuration: its keys are
\* the keys of either, each once; a key the caller has carries the caller's
\* value, in both or only there, and a key only the default has carries the
\* default's value.
C22_CallerConfigurationWinsTheMerge ==
  WidgetRendered(instance) =>
    LET given == WidgetPropsConfiguration(instance)
        default == instance.defaultConfiguration
        caller == instance.configuration
    IN  /\ KeysOf(given) = KeysOf(default) \cup KeysOf(caller)
        /\ Len(given) = Cardinality(KeysOf(given))
        /\ \A i \in DOMAIN given :
             IF given[i].name \in KeysOf(caller)
             THEN \E j \in DOMAIN caller : caller[j] = given[i]
             ELSE \E j \in DOMAIN default : default[j] = given[i]

\* A widget is rendered whose default and caller's configuration share "title",
\* with different values, and have each a key of their own.
C22_Witness ==
  /\ WidgetRendered(instance)
  /\ \E i \in DOMAIN instance.defaultConfiguration,
        j \in DOMAIN instance.configuration :
       /\ instance.defaultConfiguration[i].name = instance.configuration[j].name
       /\ instance.defaultConfiguration[i].value # instance.configuration[j].value
  /\ KeysOf(instance.defaultConfiguration) \ KeysOf(instance.configuration) # {}
  /\ KeysOf(instance.configuration) \ KeysOf(instance.defaultConfiguration) # {}

\* C23: validateProps reports every required declared prop that the
\* configuration does not have: the result is not valid and has an error that
\* names the prop, whatever the configuration and the manifest.
C23_MissingRequiredPropIsReported ==
  (validation.called /\ validation.manifest.props # Undefined) =>
    \A i \in DOMAIN validation.manifest.props :
      LET declared == validation.manifest.props[i] IN
      (declared.required /\ declared.name \notin KeysOf(validation.props)) =>
        /\ ~validation.result.isValid
        /\ \E e \in DOMAIN validation.result.errors :
             Includes(validation.result.errors[e], declared.name)

\* Whether two strings are equal up to the case of their letters.
SameIgnoringCase(a, b) ==
  /\ Len(a) = Len(b)
  /\ \A i \in DOMAIN a : ToUpperCase(a[i]) = ToUpperCase(b[i])

\* Whether error is a type-mismatch error for the prop of that name.
IsTypeErrorFor(error, name) ==
  /\ Len(error) > Len(name) + 2
  /\ error[1] = "Prop '"
  /\ SubSeq(error, 2, Len(name) + 1) = name
  /\ error[Len(name) + 2] = "' should be of type '"

\* The type of the value the configuration has under name.
ActualType(props, name) ==
  props[CHOOSE i \in DOMAIN props : props[i].name = name].type

\* C24: for a declared prop with a type that the configuration has,
\* validateProps records a type-mismatch error exactly when the primitive type
\* of the value differs from the declared type, the case of letters ignored, and
\* the declared type is not "any"; the error reads "Prop '<name>' should be of
\* type '<type>', got '<actual>'"; and a prop declared "any" has no type error.
C24_TypeMismatchIsReported ==
  (validation.called /\ validation.manifest.props # Undefined) =>
    \A i \in DOMAIN validation.manifest.props :
      LET declared == validation.manifest.props[i]
          errors == validation.result.errors
          typeErrors == { e \in DOMAIN errors : IsTypeErrorFor(errors[e], declared.name) }
      IN  /\ (declared.name \in KeysOf(validation.props) /\ declared.type # << >>) =>
               LET actual == ActualType(validation.props, declared.name) IN
               /\ typeErrors # {} <=>
                    ( /\ ~SameIgnoringCase(actual, declared.type)
                      /\ ~SameIgnoringCase(declared.type, AnyType) )
               /\ \A e \in typeErrors :
                    /\ SameIgnoringCase(
                         errors[e],
                         <<"Prop '">> \o declared.name \o <<"' should be of type '">>
                           \o declared.type \o <<"', got '">> \o actual \o <<"'">>)
                    /\ \A c \in DOMAIN declared.type :
                         errors[e][Len(declared.name) + 2 + c]
                           \notin { UpperCase[u] : u \in DOMAIN UpperCase }
          /\ SameIgnoringCase(declared.type, AnyType) => typeErrors = {}

\* validateProps was called with a number under "count" and a manifest that
\* declares "count" a "String": the result is not valid and holds the type error.
C24_Witness ==
  /\ validation.called
  /\ validation.manifest.props # Undefined
  /\ \E i \in DOMAIN validation.manifest.props :
       /\ validation.manifest.props[i].name = <<"count">>
       /\ validation.manifest.props[i].type = <<"S", "t", "r", "i", "n", "g">>
  /\ \E j \in DOMAIN validation.props :
       validation.props[j] = [name |-> <<"count">>, type |-> NumberType]
  /\ ~validation.result.isValid
  /\ \E e \in DOMAIN validation.result.errors :
       validation.result.errors[e] =
         <<"Prop '", "count", "' should be of type '">> \o StringType
           \o <<"', got '">> \o NumberType \o <<"'">>

\* Whether the configuration violates what a declared prop asks for: the prop is
\* required and absent, or present with a value of another type than declared.
Violates(props, declared) ==
  \/ declared.required /\ declared.name \notin KeysOf(props)
  \/ /\ declared.name \in KeysOf(props)
     /\ declared.type # << >>
     /\ ~SameIgnoringCase(ActualType(props, declared.name), declared.type)
     /\ ~SameIgnoringCase(declared.type, AnyType)

\* C25: validateProps does not stop at the first error: its error list has one
\* entry for every declared prop the configuration violates and no other,
\* isValid is true exactly when the list is empty, and for a manifest without a
\* props schema the result is valid with no errors, whatever the configuration.
C25_AllViolationsAreListed ==
  validation.called =>
    /\ validation.result.isValid <=> validation.result.errors = << >>
    /\ validation.manifest.props = Undefined =>
         validation.result = [isValid |-> TRUE, errors |-> << >>]
    /\ validation.manifest.props # Undefined =>
         /\ Len(validation.result.errors) =
              Cardinality({ i \in DOMAIN validation.manifest.props :
                              Violates(validation.props, validation.manifest.props[i]) })
         /\ \A i \in DOMAIN validation.manifest.props :
              Violates(validation.props, validation.manifest.props[i]) =>
                \E e \in DOMAIN validation.result.errors :
                  Includes(validation.result.errors[e],
                           validation.manifest.props[i].name)

\* The attempts started in this step.
NewAttempts == (Len(attempts) + 1)..Len(attempts')

\* C26: while the caller's props stay as they are, the configuration prop passed
\* or left out, a load attempt starts only when the WidgetRenderer mounts and
\* when Retry is clicked, and an instance that shows loaded or error goes back to
\* loading only by a click on Retry.
C26_AttemptsOnlyOnMountAndRetry ==
  [][/\ \A a \in NewAttempts : attempts'[a].trigger \in {"mount", "retry"}
     /\ ( /\ instance.mounted
          /\ ~instance.widgetState.loading
          /\ instance'.widgetState.loading ) => Retry]_vars

\* C27: once all the attempts of a WidgetRenderer have settled, the component,
\* the manifest and the error it has stored are those of the attempt started
\* last, whatever the order in which the attempts settled: an attempt that was
\* superseded while in flight has not overwritten the newer one.
C27_LastAttemptDecides ==
  ( /\ instance.mounted
    /\ attempts # << >>
    /\ \A a \in DOMAIN attempts : attempts[a].stage = "done" ) =>
    LET t == attempts[Len(attempts)]
        ws == instance.widgetState
    IN  IF t.outcome = "loaded"
        THEN /\ ws.component = calls[t.call].value
             /\ ws.manifest = t.manifest
             /\ ws.error = NoError
        ELSE /\ ws.component = Null
             /\ ws.manifest = NullManifest
             /\ ws.error = t.error

\* C28: an error event caused by the widget of one WidgetRenderer puts that
\* WidgetRenderer into its error display and calls its onError, and leaves every
\* other mounted WidgetRenderer as it was: what it displays is unchanged and its
\* onError is not called.
C28_RuntimeFaultStaysWithItsWidget ==
  [][\A m \in ErrorMessages :
       /\ UncaughtIn("sibling", m) =>
            /\ sibling'.hasError
            /\ \E r \in sibling'.reported : r.underlying = m
            /\ instance' = instance
            /\ reported' = reported
       /\ UncaughtIn("instance", m) =>
            /\ ErrorDisplayed(instance')
            /\ \E r \in reported' : r.underlying = m
            /\ sibling' = sibling]_vars

\* C29: the loadManifest calls for one cache key made while a fetch for that key
\* is under way make no fetch of their own, and all of them get the result of
\* that one fetch: a call made while a call for its key is pending does not
\* fetch, and when a pending call returns, every pending call for its key returns
\* with it, the same manifest or the same null.
C29_ConcurrentManifestLoadsShareOneFetch ==
  [][/\ \A n \in NewManifestLoads :
          (\E m \in DOMAIN manifestLoads :
             /\ manifestLoads[m].key = manifestLoads'[n].key
             /\ manifestLoads[m].state = "pending")
          => ~manifestLoads'[n].fetched
     /\ \A m, n \in DOMAIN manifestLoads :
          ( /\ manifestLoads[m].key = manifestLoads[n].key
            /\ manifestLoads[m].state = "pending"
            /\ manifestLoads[n].state = "pending"
            /\ manifestLoads'[m].state = "fulfilled" )
          => /\ manifestLoads'[n].state = "fulfilled"
             /\ manifestLoads'[n].result = manifestLoads'[m].result]_vars

\* C30: whenever a resolution is unsettled and clearCache has not run since it
\* was started, the in-flight map has an entry for its key, and that entry is
\* this resolution: the settlement of an older resolution of the key has not
\* removed it.
C30_UnsettledResolutionKeepsItsEntry ==
  \A rid \in DOMAIN resolutions :
    (~Settled(resolutions[rid]) /\ ~resolutions[rid].stale) =>
      /\ resolutions[rid].key \in DOMAIN loadingPromises
      /\ loadingPromises[resolutions[rid].key] = rid

\* C31: when a resolution settles, its key is afterwards not in the in-flight
\* map, whichever way it settled; when it succeeded, the terminal entry of its
\* key is the component it resolved to and no other terminal entry has changed;
\* when it failed, the terminal cache is as it was before.
C31_SettlementClearsInFlightAndStoresSuccess ==
  [][\A rid \in DOMAIN resolutions :
       SettlesNow(rid) =>
         LET k == resolutions[rid].key IN
         /\ k \notin DOMAIN loadingPromises'
         /\ resolutions'[rid].state = "fulfilled" =>
              /\ k \in DOMAIN widgets'
              /\ widgets'[k] = resolutions'[rid].value
              /\ widgets'[k] # Null
              /\ \A other \in DOMAIN widgets' \ {k} :
                   other \in DOMAIN widgets /\ widgets'[other] = widgets[other]
         /\ resolutions'[rid].state = "rejected" => widgets' = widgets]_vars

\* One resolution has succeeded and its component is the terminal entry of its
\* key; another has failed and its key has no terminal entry; nothing is in
\* flight.
C31_Witness ==
  /\ loadingPromises = EmptyMap
  /\ \E r1, r2 \in DOMAIN resolutions :
       /\ resolutions[r1].state = "fulfilled"
       /\ resolutions[r1].key \in DOMAIN widgets
       /\ widgets[resolutions[r1].key] = resolutions[r1].value
       /\ resolutions[r2].state = "rejected"
       /\ resolutions[r2].key \notin DOMAIN widgets

\* C32: in every state that loadWidget calls, settlements and clearCache calls
\* lead to, no cache key is both in the terminal cache and in the in-flight map.
C32_TerminalAndInFlightAreDisjoint ==
  (DOMAIN widgets) \cap (DOMAIN loadingPromises) = {}

\* One key has a terminal entry, stored by a resolution that was in flight when
\* clearCache ran, while a later resolution of another key is in flight.
C32_Witness ==
  \E r1, r2 \in DOMAIN resolutions :
    /\ resolutions[r1].stale
    /\ resolutions[r1].state = "fulfilled"
    /\ resolutions[r1].key \in DOMAIN widgets
    /\ resolutions[r1].key \notin DOMAIN loadingPromises
    /\ ~Settled(resolutions[r2])
    /\ resolutions[r2].key \in DOMAIN loadingPromises
    /\ resolutions[r2].key \notin DOMAIN widgets

\* The loadWidget calls that wait for resolution rid.
WaitingFor(rid) ==
  { i \in DOMAIN calls : calls[i].promise = rid /\ calls[i].state = "pending" }

\* C33: the local import comes first and the CDN second. When the import
\* succeeds, the loadWidget calls that wait for it are fulfilled with the
\* module's default export if it has one and with the module object otherwise,
\* and no script element is injected. When the import fails, no call is
\* rejected: the resolution goes on with the CDN, its script element, whose src
\* is the unpkg URL of the package and version, attached to document.head. And
\* no script element is there for a resolution whose import has not failed.
C33_LocalImportFirstThenCdn ==
  [][\A rid \in DOMAIN resolutions :
       LET p == resolutions[rid].packageName IN
       /\ ImportSucceeds(rid) =>
            /\ resolutions'[rid].state = "fulfilled"
            /\ resolutions'[rid].value =
                 IF HasDefaultExport(p) THEN << "default", p >> ELSE << "module", p >>
            /\ \A i \in WaitingFor(rid) :
                 /\ calls'[i].state = "fulfilled"
                 /\ calls'[i].value = resolutions'[rid].value
            /\ head' = head
            /\ rid \notin head'
       /\ ImportFails(rid) =>
            /\ resolutions'[rid].state = "pending"
            /\ resolutions'[rid].stage = "cdn"
            /\ \A i \in WaitingFor(rid) : calls'[i].state = "pending"
            /\ head' = head \cup {rid}
            /\ CdnUrl(p, resolutions[rid].versionString) =
                 <<"https://unpkg.com/">> \o resolutions'[rid].key
                   \o <<"/dist/index.umd.js">>
       /\ resolutions[rid].stage = "import" => rid \notin head]_vars

\* A package with a default export was loaded by its import, to that export and
\* without a script element, and the resolution of another package, whose
\* import failed, waits for its CDN script.
C33_Witness ==
  \E r1, r2 \in DOMAIN resolutions :
    /\ resolutions[r1].state = "fulfilled"
    /\ resolutions[r1].value = << "default", resolutions[r1].packageName >>
    /\ r1 \notin head
    /\ resolutions[r2].stage = "cdn"
    /\ resolutions[r2].state = "pending"
    /\ r2 \in head
    /\ \E i \in DOMAIN calls : calls[i].promise = r2 /\ calls[i].state = "pending"

\* C34: a loadWidget call that failed because the CDN script loaded without
\* defining the derived global is rejected with a message that says the widget
\* was not found on window.<derived global name>.
C34_AbsentGlobalNamesWindowProperty ==
  \A i \in DOMAIN calls :
    ( /\ calls[i].state = "rejected"
      /\ calls[i].promise # 0
      /\ resolutions[calls[i].promise].cause
           = NotFoundMessage(resolutions[calls[i].promise].packageName) )
    => Includes(calls[i].message,
                <<" not found on window.">>
                  \o GetGlobalName(resolutions[calls[i].promise].packageName))

\* C35: what a WidgetRenderer validates against the manifest is the merged
\* configuration it delivers to the component, the widget's defaults overridden
\* by the caller's configuration: an attempt fails with "Invalid configuration"
\* only if the merged configuration violates the props schema of the manifest
\* it loaded, so that a required prop only the defaults supply passes.
C35_MergedConfigurationIsValidated ==
  instance.mounted =>
    \A a \in DOMAIN attempts :
      LET t == attempts[a]
          merged == Spread(instance.defaultConfiguration, t.configuration)
      IN  ( /\ t.stage = "done"
            /\ t.outcome = "error"
            /\ Includes(t.error.message, <<"Invalid configuration: ">>) )
          => /\ Settled(manifestLoads[t.manifestLoad])
             /\ LET manifest == manifestLoads[t.manifestLoad].result IN
                /\ ~manifest.null
                /\ manifest.props # Undefined
                /\ ~ValidateProps(merged, manifest).isValid

\* C36: getLoadedWidgets gives the cache keys back as the pairs they were made
\* of: its list has one entry for each terminal cache entry, and for every
\* (packageName, version) loaded through loadWidget and cached exactly one entry
\* with that packageName and that version, "latest" for an omitted version, a
\* scoped name such as "@s/w" included.
C36_LoadedWidgetsRoundTrip ==
  [][GetLoadedWidgets =>
       /\ Len(probe'.result) = Cardinality(DOMAIN widgets)
       /\ \A q \in Requests :
            CacheKey(q.packageName, q.version) \in DOMAIN widgets =>
              Cardinality({ i \in DOMAIN probe'.result :
                              /\ probe'.result[i].packageName = q.packageName
                              /\ probe'.result[i].version = VersionOrLatest(q.version) })
                = 1]_vars

\* C37: an editable WidgetIsland with a positive maxWidgets that was mounted
\* with no more widgets than that never holds more than maxWidgets widgets,
\* whatever is added, removed, reordered, opened and closed.
C37_WidgetCountWithinMaxWidgets ==
  ( /\ island.mounted
    /\ island.editable
    /\ island.maxWidgets > 0
    /\ island.initialCount <= island.maxWidgets )
  => Len(island.widgets) <= island.maxWidgets

\* C38: with no packages to update (PACKAGES_TO_UPDATE not set, "[]", or not
\* JSON) and npm authentication not failing, run() ends without a fatal error:
\* it has written has-changes=false with no updated packages and no errors, its
\* results hold no error, its promise is not rejected and the exit code is not 1.
C38_NothingToUpdateIsNotFatal ==
  ( /\ updater.pc = "done"
    /\ updater.npmAuth # "fails"
    /\ \/ updater.packagesEnv.kind \in {"missing", "unparsable"}
       \/ updater.packagesEnv = [kind |-> "array", items |-> << >>] )
  => /\ updater.exitCode # 1
     /\ ~updater.rejected
     /\ updater.results.errors = << >>
     /\ updater.outputs # << >>
     /\ \A i \in DOMAIN updater.outputs :
          /\ ~updater.outputs[i].hasChanges
          /\ updater.outputs[i].updatedPackages = << >>
          /\ updater.outputs[i].errors = << >>

\* The install of the next package of the loop fails: execSync throws.
InstallFails ==
  /\ updater.pc = "installing"
  /\ updater.index <= Len(updater.packages)
  /\ ~updater.packages[updater.index].isNull
  /\ InstallPackage(FALSE)

\* C39: in run(), a failed install of a package is recorded in results.errors,
\* with the package's name and version, and the loop goes on with the next
\* package; and when the summary is made after the loop, successfulInstalls
\* plus failedInstalls is the number of packages given, each of them either
\* among the updated packages or among the errors.
C39_FailedInstallIsRecordedAndLoopGoesOn ==
  [][/\ InstallFails =>
          LET pkg == updater.packages[updater.index] IN
          /\ Len(updater'.results.errors) = Len(updater.results.errors) + 1
          /\ SubSeq(updater'.results.errors, 1, Len(updater.results.errors))
               = updater.results.errors
          /\ updater'.results.errors[Len(updater'.results.errors)].package = pkg.name
          /\ updater'.results.errors[Len(updater'.results.errors)].version = pkg.version
          /\ updater'.results.updatedPackages = updater.results.updatedPackages
          /\ updater'.pc = "installing"
          /\ updater'.index = updater.index + 1
          /\ updater'.exitCode # 1
     /\ (updater.results.summary.empty /\ ~updater'.results.summary.empty) =>
          /\ updater'.results.summary.successfulInstalls
               + updater'.results.summary.failedInstalls = Len(updater.packages)
          /\ updater'.results.summary.successfulInstalls
               = Len(updater'.results.updatedPackages)
          /\ updater'.results.summary.failedInstalls
               = Len(updater'.results.errors)
          /\ \A e \in DOMAIN updater'.results.errors :
               updater'.results.errors[e].type = "install"]_vars

\* A run over two packages has ended with its summary made: the install of the
\* first failed and is among the errors, the second was installed after it.
C39_Witness ==
  /\ updater.pc = "done"
  /\ Len(updater.packages) = 2
  /\ ~updater.results.summary.empty
  /\ updater.results.summary.failedInstalls = 1
  /\ updater.results.summary.successfulInstalls = 1
  /\ updater.results.errors[1].package = updater.packages[1].name
  /\ updater.results.updatedPackages[1].name = updater.packages[2].name
  /\ updater.exitCode = 0

====
